---- MODULE Spec2Model ----
(***************************************************************************)
(* A model of the traversal core of url-spewderman (crawler/engine.py):    *)
(* URL normalisation, domain scoping, link extraction, the retry wrapper   *)
(* and the worker pool that drains the shared queue.                       *)
(*                                                                         *)
(* Strings are sequences of atoms.  An atom stands for a fixed run of      *)
(* characters ("example", "/", ".png"); Lower maps an atom to its          *)
(* lower-cased form.  A URL is kept in the parsed form urlparse gives      *)
(* (scheme, host labels, port, path atoms, query pairs, fragment); Str     *)
(* renders it back to the atom string the code's startswith / endswith     *)
(* tests read.                                                             *)
(***************************************************************************)
EXTENDS Integers, Sequences, FiniteSets, TLC

(***************************************************************************)
(* Bounds of the model.                                                    *)
(***************************************************************************)
\* config.concurrency ranges over 1..MaxConcurrency
MaxConcurrency == 2
\* config.max_depth ranges over 1..MaxDepth
MaxDepth == 3
\* config.max_retries ranges over 0..MaxRetries
MaxRetries == 2
\* at most MaxFaults fetch attempts of one run end in anything but success
MaxFaults == 3

\* engine.py:460  min(self.config.concurrency, 10)
WorkerCap == 10

(***************************************************************************)
(* Atoms and strings.                                                      *)
(***************************************************************************)
\* str.lower() on the atoms that carry upper-case letters
LowerTable ==
    [a \in {"HTTPS", "HTTP", "EXAMPLE", "WWW", "B", ".PNG", "Page", "Not Found",
             "FORBIDDEN", "Connection"} |->
        CASE a = "HTTPS"   -> "https"
          [] a = "HTTP"    -> "http"
          [] a = "EXAMPLE" -> "example"
          [] a = "WWW"     -> "www"
          [] a = "B"       -> "b"
          [] a = ".PNG"    -> ".png"
          [] a = "Page"    -> "page"
          [] a = "Not Found"  -> "not found"
          [] a = "FORBIDDEN"  -> "forbidden"
          [] a = "Connection" -> "connection"]

Lower(a) == IF a \in DOMAIN LowerTable THEN LowerTable[a] ELSE a

LowerSeq(s) == [i \in 1..Len(s) |-> Lower(s[i])]

\* atoms made of decimal digits only (the labels of an IPv4 literal)
DigitAtoms == {"127", "0", "1", "2"}

\* code-point order of the atoms that occur in query strings
AtomRank(a) ==
    CASE a = ""  -> 0
      [] a = "1" -> 1
      [] a = "2" -> 2
      [] a = "a" -> 3
      [] a = "b" -> 4
      [] a = "caf%EF%BF%BD" -> 5
      [] a = "name" -> 6
      [] OTHER   -> 7

(***************************************************************************)
(* URLs.  A URL is kept split at the places urlsplit splits it; its path   *)
(* is the text between the authority and the '?', path parameters          *)
(* included: urlparse's split of the parameters is SplitParams below, and  *)
(* urlunparse puts them back behind the path.                              *)
(***************************************************************************)
Url(s, h, p, path, q, f) ==
    [scheme |-> s, host |-> h, port |-> p, path |-> path, query |-> q, frag |-> f]

\* an absolute URL without query and fragment
Abs(s, h, path) == Url(s, h, "", path, <<>>, "")
\* a path-absolute relative reference
Rel(path) == Url("", <<>>, "", path, <<>>, "")

NoUrl == Url("", <<>>, "", <<>>, <<>>, "")

\* The text of a URL, as a sequence of atoms (urlunparse).
RECURSIVE JoinLabels(_)
JoinLabels(h) ==
    IF h = <<>> THEN <<>>
    ELSE IF Len(h) = 1 THEN <<h[1]>>
    ELSE <<h[1], ".">> \o JoinLabels(Tail(h))

RECURSIVE JoinQuery(_)
JoinQuery(q) ==
    IF q = <<>> THEN <<>>
    ELSE IF Len(q) = 1 THEN <<q[1][1], "=", q[1][2]>>
    ELSE <<q[1][1], "=", q[1][2], "&">> \o JoinQuery(Tail(q))

Str(u) ==
    (IF u.scheme # "" THEN <<u.scheme, ":">> ELSE <<>>)
    \o (IF u.host # <<>> THEN <<"//">> \o JoinLabels(u.host) ELSE <<>>)
    \o (IF u.port # "" THEN <<":", u.port>> ELSE <<>>)
    \o u.path
    \o (IF u.query # <<>> THEN <<"?">> \o JoinQuery(u.query) ELSE <<>>)
    \o (IF u.frag # "" THEN <<"#", u.frag>> ELSE <<>>)

(***************************************************************************)
(* CrawlConfig (crawler/model.py).  The model keeps the fields the engine  *)
(* reads.  pydantic ignores a keyword that names no declared field.        *)
(***************************************************************************)
ConfigFields == {"url", "max_depth", "concurrency", "request_delay", "max_retries",
                 "retry_backoff_factor"}

CrawlConfig(kwargs) == [f \in (DOMAIN kwargs) \cap ConfigFields |-> kwargs[f]]

VARIABLES
    config,      \* self.config
    get_sld,     \* module-level get_sld: "loaded", or "None" when the import failed
    kwargs,      \* the keyword arguments the caller gave CrawlConfig
    site         \* the web site the fetch collaborator serves

(***************************************************************************)
(* _normalize_url                                                          *)
(***************************************************************************)
\* path atoms that start with ';'
ParamAtoms == {";x"}

\* the place of the first ';' atom of a path from the i-th atom on, 0 if none
RECURSIVE FindParam(_, _)
FindParam(path, i) ==
    IF i > Len(path) THEN 0
    ELSE IF path[i] \in ParamAtoms THEN i
    ELSE FindParam(path, i + 1)

\* the place of the last '/' of a path, 0 if none
RECURSIVE LastSlash(_, _)
LastSlash(path, i) ==
    IF i = 0 THEN 0
    ELSE IF path[i] = "/" THEN i
    ELSE LastSlash(path, i - 1)

\* urlparse: the path and the parameters of its last segment (_splitparams
\* looks for the first ';' behind the last '/')
SplitParams(path) ==
    LET i == FindParam(path, LastSlash(path, Len(path)) + 1)
    IN  IF i = 0 THEN <<path, <<>>>>
        ELSE <<SubSeq(path, 1, i - 1), SubSeq(path, i, Len(path))>>

\* urlencode(parse_qsl(...)) on one key or value: an escape that is no UTF-8
\* is decoded to U+FFFD and encoded as that
Requote(a) == IF a = "caf%E9" THEN "caf%EF%BF%BD" ELSE a

RequotePairs(q) == [i \in 1..Len(q) |-> <<Requote(q[i][1]), Requote(q[i][2])>>]

RECURSIVE RStripSlash(_)
RStripSlash(path) ==
    IF path # <<>> /\ path[Len(path)] = "/"
    THEN RStripSlash(SubSeq(path, 1, Len(path) - 1))
    ELSE path

\* an order that compares the keys only, so that the sort keeps the
\* parameters of one key as they came
PairLessByKey(p, q) == AtomRank(p[1]) < AtomRank(q[1])

\* tuple order of (key, value) pairs, as list.sort() compares them
PairLess(p, q) ==
    \/ AtomRank(p[1]) < AtomRank(q[1])
    \/ AtomRank(p[1]) = AtomRank(q[1]) /\ AtomRank(p[2]) < AtomRank(q[2])

RECURSIVE InsertPair(_, _)
InsertPair(p, s) ==
    IF s = <<>> THEN <<p>>
    ELSE IF PairLess(p, s[1]) THEN <<p>> \o s
    ELSE <<s[1]>> \o InsertPair(p, Tail(s))

RECURSIVE SortPairs(_)
SortPairs(q) ==
    IF q = <<>> THEN <<>>
    ELSE InsertPair(q[Len(q)], SortPairs(SubSeq(q, 1, Len(q) - 1)))

NormalizePort(scheme, port) ==
    IF (scheme = "http" /\ port = "80") \/ (scheme = "https" /\ port = "443")
    THEN ""
    ELSE port

\* a normaliser that removes one trailing slash only
NormalizePathOneSlash(path) ==
    IF path = <<>> THEN <<"/">>
    ELSE IF path # <<"/">> /\ path[Len(path)] = "/" THEN SubSeq(path, 1, Len(path) - 1)
    ELSE path

\* a normaliser that keeps a trailing slash
NormalizePathKeepsSlash(path) == IF path = <<>> THEN <<"/">> ELSE path

NormalizePath(path) ==
    LET stripped == IF path # <<"/">> /\ path # <<>> /\ path[Len(path)] = "/"
                    THEN RStripSlash(path)
                    ELSE path
    IN  IF stripped = <<>> THEN <<"/">> ELSE stripped

\* urlparse gives the path without the parameters of its last segment, the
\* slash is stripped from that, and urlunparse puts the parameters back
_normalize_url(u) ==
    LET scheme == Lower(u.scheme)
    IN  Url(scheme,
            LowerSeq(u.host),
            NormalizePort(scheme, u.port),
            IF SplitParams(u.path)[2] = <<>>
            THEN NormalizePath(u.path)
            ELSE NormalizePath(SplitParams(u.path)[1]) \o SplitParams(u.path)[2],
            IF u.query # <<>> THEN SortPairs(RequotePairs(u.query)) ELSE <<>>,
            "")

(***************************************************************************)
(* Domain scope: _extract_domain, _registrable_domain, _scope_key          *)
(***************************************************************************)
_extract_domain(u) == LowerSeq(u.host)

IsIpAddress(host) == Len(host) = 4 /\ \A i \in 1..4 : host[i] \in DigitAtoms

\* publicsuffix2.get_sld: the public suffix (here a one-label suffix) and one
\* more label
PublicSuffixSld(host) ==
    IF Len(host) >= 2 THEN SubSeq(host, Len(host) - 1, Len(host)) ELSE host

\* a registrable domain without the shortcuts for localhost and IP literals
RegistrableDomainNoShortcut(h) ==
    LET host == LowerSeq(h)
    IN  IF host = <<>> THEN host
        ELSE IF get_sld = "None" THEN host
        ELSE PublicSuffixSld(host)

_registrable_domain(h) ==
    LET host == LowerSeq(h)
    IN  IF host = <<>> THEN host
        ELSE IF host = <<"localhost">> THEN host
        ELSE IF IsIpAddress(host) THEN host
        ELSE IF get_sld = "None" THEN host
        ELSE PublicSuffixSld(host)

\* getattr(self.config, "internal_domain_policy", "registrable")
ConfigPolicy ==
    IF "internal_domain_policy" \in DOMAIN config
    THEN config.internal_domain_policy
    ELSE "registrable"

_scope_key(u) ==
    LET host == _extract_domain(u)
    IN  IF ConfigPolicy = "host" THEN host ELSE _registrable_domain(host)

(***************************************************************************)
(* _should_crawl_url and the extension list                                *)
(***************************************************************************)
asset_extensions ==
    {".css", ".js", ".json", ".xml",
     ".ico", ".png", ".jpg", ".jpeg", ".gif", ".bmp", ".svg", ".webp",
     ".mp4", ".mp3", ".avi", ".mov", ".wav",
     ".pdf", ".doc", ".docx", ".xls", ".xlsx", ".ppt", ".pptx",
     ".zip", ".tar", ".gz", ".rar", ".7z",
     ".woff", ".woff2", ".ttf", ".eot", ".otf"}

\* text.lower().endswith(ext) for some ext of the list
EndsWithAsset(text) ==
    text # <<>> /\ Lower(text[Len(text)]) \in asset_extensions

_should_crawl_url(u) == ~EndsWithAsset(Str(u))

(***************************************************************************)
(* urllib.parse.urljoin, for the references the sites use: an absolute     *)
(* URL, a protocol-relative one, a path-absolute one, a same-document one. *)
(***************************************************************************)
\* host labels with a '[' and no ']': urlsplit rejects such a netloc
\* (ValueError: Invalid IPv6 URL)
UnmatchedBracket == {"[bad"}

\* whether urljoin(base, h) raises
JoinRaises(h) == \E i \in 1..Len(h.host) : h.host[i] \in UnmatchedBracket

urljoin(base, h) ==
    IF h.scheme # "" THEN h
    ELSE IF h.host # <<>> THEN [h EXCEPT !.scheme = base.scheme]
    ELSE IF h.path # <<>>
         THEN Url(base.scheme, base.host, base.port, h.path, h.query, h.frag)
         ELSE Url(base.scheme, base.host, base.port, base.path,
                  IF h.query # <<>> THEN h.query ELSE base.query, h.frag)

(***************************************************************************)
(* _extract_links                                                          *)
(***************************************************************************)
StartsWith(text, prefix) ==
    Len(text) >= Len(prefix) /\ SubSeq(text, 1, Len(prefix)) = prefix

NonNavigable ==
    {<<"#">>, <<"javascript", ":">>, <<"mailto", ":">>, <<"tel", ":">>,
     <<"data", ":">>, <<"file", ":">>, <<"ftp", ":">>}

FallbackNonNavigable ==
    {<<"#">>, <<"javascript", ":">>, <<"mailto", ":">>, <<"tel", ":">>}

\* not href.strip()
IsBlank(text) == \A i \in 1..Len(text) : text[i] \in {"", " "}

\* a filter that lets the ftp: links of the collaborator's list through
KeepLinkForgetsFtp(source, h) ==
    CASE source = "result" ->
            /\ ~\E p \in NonNavigable \ {<<"ftp", ":">>} : StartsWith(Str(h), p)
            /\ ~IsBlank(Str(h))
      [] source = "anchor" ->
            /\ ~\E p \in NonNavigable : StartsWith(Str(h), p)
            /\ ~IsBlank(Str(h))
            /\ ~EndsWithAsset(Str(h))
      [] source = "fallback" ->
            /\ ~\E p \in FallbackNonNavigable : StartsWith(Str(h), p)
            /\ ~EndsWithAsset(Str(h))

\* the filter of each of the three sources: the collaborator's link list, the
\* anchors of the parsed markup, the href values the fallback pattern finds
KeepLink(source, h) ==
    CASE source = "result" ->
            /\ ~\E p \in NonNavigable : StartsWith(Str(h), p)
            /\ ~IsBlank(Str(h))
      [] source = "anchor" ->
            /\ ~\E p \in NonNavigable : StartsWith(Str(h), p)
            /\ ~IsBlank(Str(h))
            /\ ~EndsWithAsset(Str(h))
      [] source = "fallback" ->
            /\ ~\E p \in FallbackNonNavigable : StartsWith(Str(h), p)
            /\ ~EndsWithAsset(Str(h))

\* the links of one source that pass its filter, in order, from the i-th on
RECURSIVE SelectLinks(_, _, _)
SelectLinks(s, i, source) ==
    IF i > Len(s) THEN <<>>
    ELSE (IF KeepLink(source, s[i]) THEN <<s[i]>> ELSE <<>>)
         \o SelectLinks(s, i + 1, source)

\* the deduplication loop, from the i-th link on
RECURSIVE Dedup(_, _, _)
Dedup(s, i, seen) ==
    IF i > Len(s) THEN <<>>
    ELSE IF s[i] \in seen THEN Dedup(s, i + 1, seen)
    ELSE <<s[i]>> \o Dedup(s, i + 1, seen \cup {s[i]})

\* page: the collaborator's result; page.anchors are the href values of the
\* markup in document order, page.links the collaborator's own link list
_extract_links(page) ==
    LET fromResult == SelectLinks(page.links, 1, "result")
        fromMarkup == IF page.parses
                      THEN SelectLinks(page.anchors, 1, "anchor")
                      ELSE SelectLinks(page.anchors, 1, "fallback")
    IN  Dedup(fromResult \o fromMarkup, 1, {})

(***************************************************************************)
(* The fetch collaborator: the sites it serves and the results it gives.   *)
(***************************************************************************)
EX   == <<"example", "com">>
DOCS == <<"docs", "example", "com">>
WWW  == <<"www", "example", "com">>
EXT  == <<"external", "com">>

Page(anchors, links) ==
    [success |-> TRUE, markdown |-> "", html |-> "<html>", error |-> "",
     anchors |-> anchors, links |-> links, parses |-> TRUE]

\* a result that reports success = False
FailedPage ==
    [success |-> FALSE, markdown |-> "", html |-> "", error |-> "failed",
     anchors |-> <<>>, links |-> <<>>, parses |-> TRUE]

\* a successful result that carries neither markdown nor markup
EmptyPage ==
    [success |-> TRUE, markdown |-> "", html |-> "", error |-> "",
     anchors |-> <<>>, links |-> <<>>, parses |-> TRUE]

\* A -> B -> C  (tests/test_recursion.py, mock_crawler)
ChainSite ==
    [seed  |-> Abs("https", EX, <<"/", "a">>), reliable |-> FALSE,
     pages |-> (Abs("https", EX, <<"/", "a">>) :> Page(<<Abs("https", EX, <<"/", "b">>)>>, <<>>))
            @@ (Abs("https", EX, <<"/", "b">>) :> Page(<<Abs("https", EX, <<"/", "c">>)>>, <<>>))
            @@ (Abs("https", EX, <<"/", "c">>) :> Page(<<>>, <<>>))]

\* A -> B -> A  (test_visited_tracking), each page naming the other in several
\* spellings, beside links that are no pages
CycleSite ==
    [seed  |-> Abs("HTTPS", <<"EXAMPLE", "com">>, <<"/", "a", "/">>), reliable |-> FALSE,
     pages |-> (Abs("https", EX, <<"/", "a">>) :>
                    Page(<<Rel(<<"/", "b">>),
                           Url("", <<>>, "", <<>>, <<>>, "top"),
                           Url("https", <<"EXAMPLE", "com">>, "443", <<"/", "b", "/">>, <<>>, "x"),
                           Rel(<<"/", "logo", ".png">>),
                           Url("mailto", <<>>, "", <<"me">>, <<>>, "")>>,
                         <<Rel(<<"/", "style", ".css">>), Rel(<<"/", "b">>)>>))
            @@ (Abs("https", EX, <<"/", "b">>) :>
                    Page(<<Abs("https", EX, <<"/", "a">>),
                           Rel(<<"/", "a", "/">>),
                           Url("http", EX, "80", <<"/", "logo", ".PNG">>, <<>>, "top")>>, <<>>))]

\* a seed that names an image
AssetSite ==
    [seed  |-> Abs("https", EX, <<"/", "logo", ".png">>), reliable |-> FALSE,
     pages |-> (Abs("https", EX, <<"/", "logo", ".png">>) :> Page(<<Rel(<<"/", "a">>)>>, <<>>))]

\* S -> P, S -> X, X -> Q, Q -> T, P -> T, T -> C: T is two links from S
\* through P and three through X and Q.  The collaborator never fails on it.
DiamondSite ==
    [seed  |-> Abs("https", EX, <<"/", "s">>), reliable |-> TRUE,
     pages |-> (Abs("https", EX, <<"/", "s">>) :>
                    Page(<<Rel(<<"/", "p">>), Rel(<<"/", "x">>)>>, <<>>))
            @@ (Abs("https", EX, <<"/", "p">>) :> Page(<<Rel(<<"/", "t", "/">>)>>, <<>>))
            @@ (Abs("https", EX, <<"/", "x">>) :> Page(<<Rel(<<"/", "q">>)>>, <<>>))
            @@ (Abs("https", EX, <<"/", "q">>) :> Page(<<Rel(<<"/", "t">>)>>, <<>>))
            @@ (Abs("https", EX, <<"/", "t">>) :> Page(<<Rel(<<"/", "c">>)>>, <<>>))
            @@ (Abs("https", EX, <<"/", "c">>) :> Page(<<>>, <<>>))]

\* A -> B, A -> C; B names D, then a link urljoin rejects, then E
BrokenSite ==
    [seed  |-> Abs("https", EX, <<"/", "a">>), reliable |-> FALSE,
     pages |-> (Abs("https", EX, <<"/", "a">>) :>
                    Page(<<Rel(<<"/", "b">>), Rel(<<"/", "c">>)>>, <<>>))
            @@ (Abs("https", EX, <<"/", "b">>) :>
                    Page(<<Rel(<<"/", "d">>),
                           Abs("http", <<"[bad">>, <<"/", "x">>),
                           Rel(<<"/", "e">>)>>, <<>>))]

\* one page without links.  The collaborator never fails on it.
LeafSite ==
    [seed  |-> Abs("https", EX, <<"/", "a">>), reliable |-> TRUE,
     pages |-> (Abs("https", EX, <<"/", "a">>) :> Page(<<>>, <<>>))]

\* A names one page twice, once as /p/;x/ and once as /p;x: the first is
\* queued as /p/;x and normalised to /p;x when it is taken from the queue.
\* The collaborator never fails on it.
ParamSite ==
    [seed  |-> Abs("https", EX, <<"/", "a">>), reliable |-> TRUE,
     pages |-> (Abs("https", EX, <<"/", "a">>) :>
                    Page(<<Rel(<<"/", "p", "/", ";x", "/">>), Rel(<<"/", "p", ";x">>)>>, <<>>))
            @@ (Abs("https", EX, <<"/", "p", ";x">>) :> Page(<<>>, <<>>))]

\* a seed whose path has a parameter between two slashes: __init__ queues
\* /p/;x, the worker that takes it normalises it to /p;x.  The collaborator
\* never fails on it.
ParamSeedSite ==
    [seed  |-> Abs("https", EX, <<"/", "p", "/", ";x", "/">>), reliable |-> TRUE,
     pages |-> (Abs("https", EX, <<"/", "p", ";x">>) :> Page(<<>>, <<>>))]

\* A is served with text and a link list and without markup: its result has
\* markdown, an empty html and cleaned_html, and names B in links
TextSite ==
    [seed  |-> Abs("https", EX, <<"/", "a">>), reliable |-> FALSE,
     pages |-> (Abs("https", EX, <<"/", "a">>) :>
                    [Page(<<>>, <<Abs("https", EX, <<"/", "b">>)>>)
                        EXCEPT !.markdown = "text", !.html = ""])
            @@ (Abs("https", EX, <<"/", "b">>) :> Page(<<>>, <<>>))]

\* an intermediate result of a stream: a part of the page, with a link the
\* finished page does not have
PartialPage ==
    [success |-> TRUE, markdown |-> "partial", html |-> "<partial>", error |-> "",
     anchors |-> <<Rel(<<"/", "early">>)>>, links |-> <<>>, parses |-> TRUE]

\* A -> B, served by a collaborator that streams its results
StreamSite ==
    [seed  |-> Abs("https", EX, <<"/", "a">>), reliable |-> FALSE,
     pages |-> (Abs("https", EX, <<"/", "a">>) :>
                    [Page(<<Rel(<<"/", "b">>)>>, <<>>) EXCEPT !.markdown = "final"])
            @@ (Abs("https", EX, <<"/", "b">>) :>
                    [Page(<<>>, <<>>) EXCEPT !.markdown = "final"])]

\* docs.example.com/a names pages on a sibling host, on another domain, on
\* localhost and on an IP literal  (test_domain_restriction,
\* test_subdomains_allowed_by_default, test_host_policy_blocks_subdomains)
ScopeSite ==
    [seed  |-> Abs("https", DOCS, <<"/", "a">>), reliable |-> FALSE,
     pages |-> (Abs("https", DOCS, <<"/", "a">>) :>
                    Page(<<Abs("https", <<"WWW", "example", "com">>, <<"/", "b">>),
                           Abs("https", EXT, <<"/", "page">>),
                           Abs("http", <<"localhost">>, <<"/", "x">>),
                           Abs("http", <<"127", "0", "0", "1">>, <<"/", "y">>)>>, <<>>))
            @@ (Abs("https", WWW, <<"/", "b">>) :>
                    Page(<<Abs("https", DOCS, <<"/", "a">>)>>, <<>>))]

\* the page the collaborator has for a URL; an unknown URL gets a page without links
SitePage(u) == IF u \in DOMAIN site.pages THEN site.pages[u] ELSE Page(<<>>, <<>>)

\* what one call of crawler.arun can give: a result, or an exception whose text
\* is the given atom string
\* the streams crawler.arun can give for a URL: an intermediate result and
\* then the page, or no item at all
Streams(u) ==
    IF site = StreamSite THEN {<<PartialPage, SitePage(u)>>, <<>>} ELSE {}

\* the item the loop over a stream leaves in actual_result if it ran to the end
ActualResultFinal(o) ==
    IF o.streams /\ o.items # <<>> THEN o.items[Len(o.items)] ELSE o.result

\* actual_result: the result itself, or the first item when the result is an
\* async generator (async for item in result: actual_result = item; break)
ActualResult(o) ==
    IF o.streams /\ o.items # <<>> THEN o.items[1] ELSE o.result

\* a generator without items stays in actual_result, and reading its
\* success attribute raises AttributeError
NoItemError == <<"'async_generator' object has no attribute 'success'">>

ArunOutcomes(u) ==
    {[raises |-> FALSE, result |-> r, error |-> <<>>, streams |-> FALSE, items |-> <<>>] :
        r \in {SitePage(u), FailedPage, EmptyPage}}
    \cup {[raises |-> TRUE, result |-> EmptyPage, error |-> e, streams |-> FALSE,
            items |-> <<>>] :
            e \in {<<"connection", " ", "timeout">>, <<"404", " ", "not found">>}}
    \cup {[raises |-> FALSE, result |-> EmptyPage, error |-> <<>>, streams |-> TRUE,
            items |-> st] : st \in Streams(u)}

ArunSucceeds(o) ==
    /\ ~o.raises
    /\ ~(o.streams /\ o.items = <<>>)
    /\ ActualResult(o).success
    /\ ActualResult(o).html # ""

(***************************************************************************)
(* _should_retry_error                                                     *)
(***************************************************************************)
permanent_indicators ==
    {"404", "not found", "403", "forbidden", "401", "unauthorized",
     "400", "bad request", "invalid url", "unsupported protocol"}

transient_indicators ==
    {"timeout", "timed out", "connection", "network", "429", "too many requests",
     "500", "502", "503", "504", "server error", "gateway", "service unavailable"}

\* indicator in error_str, for an indicator that is one atom
Contains(text, indicators) == \E i \in 1..Len(text) : Lower(text[i]) \in indicators

\* a classifier that retries everything
ShouldRetryAnything(error) == TRUE

\* a classifier that looks at the transient indicators first
ShouldRetryTransientFirst(error) ==
    IF Contains(error, transient_indicators) THEN TRUE
    ELSE IF Contains(error, permanent_indicators) THEN FALSE
    ELSE TRUE

_should_retry_error(error) ==
    IF Contains(error, permanent_indicators) THEN FALSE
    ELSE IF Contains(error, transient_indicators) THEN TRUE
    ELSE TRUE

(***************************************************************************)
(* ContentCleaner.extract_cleaned_content and the result of                *)
(* _crawl_page_single for one outcome of crawler.arun                      *)
(***************************************************************************)
extract_cleaned_content(result) ==
    IF ~result.success THEN "Error crawling page"
    ELSE IF result.markdown # "" THEN result.markdown
    ELSE result.html

\* "tuple": (cleaned_content, html_content, actual_result); "none": None;
\* "raise": the exception of crawler.arun, re-raised
_crawl_page_single(o) ==
    IF o.raises
    THEN [kind |-> "raise", content |-> "", html |-> "", result |-> o.result, error |-> o.error,
          given |-> o]
    ELSE IF o.streams /\ o.items = <<>>
    THEN [kind |-> "raise", content |-> "", html |-> "", result |-> o.result,
          error |-> NoItemError, given |-> o]
    ELSE LET content == extract_cleaned_content(ActualResult(o))
         IN  IF content # "" /\ content # "No content extracted"
             THEN [kind |-> "tuple", content |-> content, html |-> ActualResult(o).html,
                   result |-> ActualResult(o), error |-> <<>>, given |-> o]
             ELSE [kind |-> "none", content |-> "", html |-> "", result |-> ActualResult(o),
                   error |-> <<>>, given |-> o]

\* request_delay * retry_backoff_factor ** (attempt - 1), delay and factor in
\* tenths: the pair <<numerator, denominator>> of the delay in tenths of a second
RECURSIVE Pow(_, _)
Pow(b, n) == IF n = 0 THEN 1 ELSE b * Pow(b, n - 1)

\* a backoff whose exponent is the attempt itself
BackoffDelayLate(attempt) ==
    <<config.request_delay * Pow(config.retry_backoff_factor, attempt),
      Pow(10, attempt)>>

BackoffDelay(attempt) ==
    <<config.request_delay * Pow(config.retry_backoff_factor, attempt - 1),
      Pow(10, attempt - 1)>>

(***************************************************************************)
(* The engine's state.                                                     *)
(***************************************************************************)
VARIABLES
    visited,     \* self.visited
    queued,      \* self.queued
    queue,       \* self.queue: the items not yet taken, oldest first
    unfinished,  \* self.queue._unfinished_tasks
    results,     \* self.results
    base_scope,  \* self.base_scope
    lock,        \* self._visited_lock: 0 when free, else the worker holding it
    wk,          \* the worker tasks: position and locals of each
    run,         \* position of run()
    returned,    \* the value run() returned
    crawls,      \* calls of _crawl_page, per URL
    fetches,     \* calls of crawler.arun, per URL
    puts,        \* calls of queue.put_nowait, per URL
    faults,      \* calls of crawler.arun that did not succeed
    worker_errors, \* "Worker error" lines logged by the workers
    sys_std,     \* sys.stdout and sys.stderr, which are always redirected and
                 \* restored together: the streams of the process, or the
                 \* StringIO objects a worker put in their place
    call         \* a call of one of the engine's pure methods, by a test

vars == <<config, get_sld, kwargs, site, visited, queued, queue, unfinished, results,
          base_scope, lock, wk, run, returned, crawls, fetches, puts, faults,
          worker_errors, sys_std, call>>

env == <<config, get_sld, kwargs, site, base_scope, call>>

\* no method is being called from outside
NoCall == [fn |-> "", args |-> <<>>, outs |-> <<>>]

EmptyMap == [x \in {} |-> 0]

Count(f, u) == IF u \in DOMAIN f THEN f[u] ELSE 0

Inc(f, u) == [x \in DOMAIN f \cup {u} |-> Count(f, x) + (IF x = u THEN 1 ELSE 0)]

Min(a, b) == IF a < b THEN a ELSE b

\* a pool with one task for each unit of the configured concurrency
WorkersUncapped == 1..config.concurrency

\* range(min(self.config.concurrency, 10))
Workers == 1..Min(config.concurrency, WorkerCap)

\* the streams the process had before run() was called
OriginalStd == 0

\* sys.stdout = io.StringIO(); sys.stderr = io.StringIO(), by worker w: new
\* objects, of which the model keeps only that they are not the streams of
\* the process
StringIO(w) == 1

Idle ==
    [pc |-> "get", url |-> NoUrl, depth |-> 0, attempt |-> 0, sleeps |-> <<>>,
     outcomes |-> <<>>, classified |-> 0, ret |-> "", exc |-> <<>>, content |-> "",
     html |-> "", result |-> EmptyPage, links |-> <<>>, cancel |-> FALSE,
     old_std |-> OriginalStd]

\* The callers the model runs: the keyword arguments given to CrawlConfig, the
\* site behind the seed and whether publicsuffix2 could be imported.  The
\* scoping inputs vary on the site that has several hosts.
KwargsFor(st) ==
    [url : {st.seed},
     max_depth : 1..MaxDepth,
     concurrency : 1..MaxConcurrency,
     request_delay : {10},
     max_retries : IF st.reliable THEN {0} ELSE 0..MaxRetries,
     retry_backoff_factor : {20}]

\* request_delay=2, retry_backoff_factor=1.5 (test_retry_with_different_backoff_factors)
SlowKwargs(k) == [k EXCEPT !.request_delay = 20, !.retry_backoff_factor = 15]

Setups ==
    UNION {{[site |-> st, kwargs |-> k, get_sld |-> "loaded"] : k \in KwargsFor(st)} :
             st \in {ChainSite, CycleSite, DiamondSite, AssetSite}}
    \cup {[site |-> BrokenSite, kwargs |-> k, get_sld |-> "loaded"] :
            k \in {x \in KwargsFor(BrokenSite) : x.max_depth = 2 /\ x.max_retries <= 1}}
    \cup {[site |-> ChainSite, kwargs |-> SlowKwargs(k), get_sld |-> "loaded"] :
            k \in {x \in KwargsFor(ChainSite) : x.concurrency = 1 /\ x.max_depth = 1}}
    \cup {[site |-> ParamSite, kwargs |-> k, get_sld |-> "loaded"] :
            k \in {x \in KwargsFor(ParamSite) : x.max_depth = 1}}
    \cup {[site |-> StreamSite, kwargs |-> k, get_sld |-> "loaded"] :
            k \in {x \in KwargsFor(StreamSite) :
                      x.concurrency = 1 /\ x.max_depth = 2 /\ x.max_retries <= 1}}
    \cup {[site |-> TextSite, kwargs |-> k, get_sld |-> "loaded"] :
            k \in {x \in KwargsFor(TextSite) :
                      x.concurrency = 1 /\ x.max_depth = 2 /\ x.max_retries = 0}}
    \cup {[site |-> ScopeSite, kwargs |-> k, get_sld |-> g] :
            k \in {x \in KwargsFor(ScopeSite) : x.concurrency = 1}, g \in {"loaded", "None"}}
    \cup {[site |-> ScopeSite, kwargs |-> [internal_domain_policy |-> "host"] @@ k, get_sld |-> g] :
            k \in {x \in KwargsFor(ScopeSite) : x.concurrency = 1}, g \in {"loaded", "None"}}

\* the attempts of one run that may end in anything but success
FaultBudget == IF site.reliable THEN 0 ELSE MaxFaults

\* CrawlerEngine.__init__
EngineInit(s) ==
    /\ kwargs = s.kwargs
    /\ site = s.site
    /\ get_sld = s.get_sld
    /\ config = CrawlConfig(kwargs)
    /\ visited = {}
    /\ queued = {_normalize_url(config.url)}
    /\ queue = <<<<_normalize_url(config.url), 0>>>>
    /\ unfinished = 1
    /\ results = EmptyMap
    /\ base_scope = _scope_key(_normalize_url(config.url))
    /\ lock = 0
    /\ wk = EmptyMap
    /\ run = "constructed"
    /\ returned = EmptyMap
    /\ crawls = EmptyMap
    /\ fetches = EmptyMap
    /\ puts = (_normalize_url(config.url) :> 1)
    /\ faults = 0
    /\ worker_errors = 0
    /\ sys_std = OriginalStd

Init ==
    /\ \E s \in Setups : EngineInit(s)
    /\ call = NoCall

(***************************************************************************)
(* run()                                                                   *)
(***************************************************************************)
\* create the worker tasks, then wait in queue.join()
Run ==
    /\ run = "constructed"
    /\ wk' = [w \in Workers |-> Idle]
    /\ run' = "join"
    /\ UNCHANGED <<env, sys_std, visited, queued, queue, unfinished, results, lock, returned,
                   crawls, fetches, puts, faults, worker_errors>>

\* a join that returns while one task is still unfinished
AllTasksDoneEarly(n) == n <= 1

\* await self.queue.join(): the counter of unfinished tasks is zero
AllTasksDone(n) == n = 0

\* queue.join() returns once no task is unfinished; every worker is cancelled
JoinReturns ==
    /\ run = "join"
    /\ AllTasksDone(unfinished)
    /\ wk' = [w \in DOMAIN wk |-> [wk[w] EXCEPT !.cancel = TRUE]]
    /\ run' = "gather"
    /\ UNCHANGED <<env, sys_std, visited, queued, queue, unfinished, results, lock, returned,
                   crawls, fetches, puts, faults, worker_errors>>

\* asyncio.gather returns once every worker task has ended; run() returns
GatherReturns ==
    /\ run = "gather"
    /\ \A w \in DOMAIN wk : wk[w].pc = "ended"
    /\ run' = "done"
    /\ returned' = results
    /\ UNCHANGED <<env, sys_std, visited, queued, queue, unfinished, results, lock, wk,
                   crawls, fetches, puts, faults, worker_errors>>

(***************************************************************************)
(* _worker                                                                 *)
(***************************************************************************)
\* a cancellation that does not reach a worker waiting in queue.get()
SuspendedNotOnGet == {"lock1", "lock2", "sleep", "arun"}

\* the places where a worker is suspended and a cancellation reaches it
Suspended == {"get", "lock1", "lock2", "sleep", "arun"}

\* url, depth = await self.queue.get(); normalized_url = self._normalize_url(url)
Get(w) ==
    /\ wk[w].pc = "get"
    /\ ~wk[w].cancel
    /\ queue # <<>>
    /\ queue' = Tail(queue)
    /\ wk' = [wk EXCEPT ![w] = [Idle EXCEPT !.pc = "lock1",
                                            !.url = _normalize_url(queue[1][1]),
                                            !.depth = queue[1][2]]]
    /\ UNCHANGED <<env, sys_std, visited, queued, unfinished, results, lock, run, returned,
                   crawls, fetches, puts, faults, worker_errors>>

\* async with self._visited_lock: the lock is taken when it is free
Acquire(w) ==
    /\ wk[w].pc \in {"lock1", "lock2"}
    /\ ~wk[w].cancel
    /\ lock = 0
    /\ lock' = w
    /\ wk' = [wk EXCEPT ![w].pc = IF wk[w].pc = "lock1" THEN "cs1" ELSE "cs2"]
    /\ UNCHANGED <<env, sys_std, visited, queued, queue, unfinished, results, run, returned,
                   crawls, fetches, puts, faults, worker_errors>>

\* an acknowledgement that is lost
TaskDoneLost(n) == n

\* self.queue.task_done()
TaskDone(n) == n - 1

\* whether the worker goes on to _crawl_page for a target it has just marked
PassesChecks(url, depth) ==
    /\ ~(depth > config.max_depth)
    /\ _should_crawl_url(url)

\* a test that never finds a target visited
AlreadyVisitedNever(url, vis) == FALSE

\* if normalized_url in self.visited
AlreadyVisited(url, vis) == url \in vis

\* the first critical section and the checks after it, up to the first
\* suspension inside _crawl_page: the first attempt enters _crawl_page_single,
\* saves the streams it finds, redirects them, restores them once the
\* collaborator is entered and is suspended in the request delay
Visit(w) ==
    /\ wk[w].pc = "cs1"
    /\ lock = w
    /\ lock' = 0
    /\ IF AlreadyVisited(wk[w].url, visited)
       THEN /\ unfinished' = TaskDone(unfinished)
            /\ wk' = [wk EXCEPT ![w] = [Idle EXCEPT !.cancel = wk[w].cancel]]
            /\ UNCHANGED <<visited, crawls>>
       ELSE /\ visited' = visited \cup {wk[w].url}
            /\ IF PassesChecks(wk[w].url, wk[w].depth)
               THEN /\ wk' = [wk EXCEPT ![w].pc = "sleep", ![w].old_std = sys_std]
                    /\ crawls' = Inc(crawls, wk[w].url)
                    /\ UNCHANGED unfinished
               ELSE /\ unfinished' = TaskDone(unfinished)
                    /\ wk' = [wk EXCEPT ![w] = [Idle EXCEPT !.cancel = wk[w].cancel]]
                    /\ UNCHANGED crawls
    /\ UNCHANGED <<env, sys_std, queued, queue, results, run, returned, fetches, puts, faults, worker_errors>>

\* a wrapper that never tells _crawl_page_single it is retrying
IsRetryNever(attempt) == FALSE

\* is_retry=(attempt > 0)
IsRetry(attempt) == attempt > 0

\* the sleeps that precede an attempt, each logged with the attempt it precedes:
\* the backoff of _crawl_page before a retry, then the request delay inside
\* _crawl_page_single unless it is told it is a retry
BackoffSleeps(attempt) ==
    IF attempt > 0
    THEN <<[kind |-> "backoff", delay |-> BackoffDelay(attempt), attempt |-> attempt]>>
    ELSE <<>>

DelaySleeps(attempt) ==
    IF config.request_delay > 0 /\ ~IsRetry(attempt)
    THEN <<[kind |-> "delay", delay |-> <<config.request_delay, 1>>, attempt |-> attempt]>>
    ELSE <<>>

\* the sleep of the worker ends: a retry enters _crawl_page_single now and
\* saves the streams it finds (old_stdout = sys.stdout); then the streams
\* are redirected for the call of crawler.arun
Sleep(w) ==
    /\ wk[w].pc = "sleep"
    /\ ~wk[w].cancel
    /\ wk' = [wk EXCEPT ![w].pc = "arun",
                        ![w].sleeps = @ \o BackoffSleeps(wk[w].attempt)
                                        \o DelaySleeps(wk[w].attempt),
                        ![w].old_std = IF wk[w].attempt > 0 THEN sys_std ELSE @]
    /\ sys_std' = StringIO(w)
    /\ UNCHANGED <<env, visited, queued, queue, unfinished, results, lock, run, returned,
                   crawls, fetches, puts, faults, worker_errors>>

\* how one attempt of _crawl_page ends, r being what _crawl_page_single gave:
\* "retry" for another turn of the loop, else what _crawl_page returns or raises
\* a wrapper that also wraps the call made when retries are disabled
AttemptEndAlwaysWraps(r, attempt) ==
    IF r.kind = "tuple" THEN "tuple"
    ELSE IF r.kind = "raise" /\ ~_should_retry_error(r.error) THEN "none"
    ELSE IF attempt < config.max_retries THEN "retry"
    ELSE "none"

\* a wrapper that stops one attempt early
AttemptEndOneShort(r, attempt) ==
    IF config.max_retries = 0 THEN r.kind
    ELSE IF r.kind = "tuple" THEN "tuple"
    ELSE IF r.kind = "raise" /\ ~_should_retry_error(r.error) THEN "none"
    ELSE IF attempt + 1 < config.max_retries THEN "retry"
    ELSE "none"

\* a wrapper that takes an attempt without content for its final answer
AttemptEndNoneFinal(r, attempt) ==
    IF config.max_retries = 0 THEN r.kind
    ELSE IF r.kind \in {"tuple", "none"} THEN r.kind
    ELSE IF ~_should_retry_error(r.error) THEN "none"
    ELSE IF attempt < config.max_retries THEN "retry"
    ELSE "none"

AttemptEnd(r, attempt) ==
    IF config.max_retries = 0 THEN r.kind
    ELSE IF r.kind = "tuple" THEN "tuple"
    ELSE IF r.kind = "raise" /\ ~_should_retry_error(r.error) THEN "none"
    ELSE IF attempt < config.max_retries THEN "retry"
    ELSE "none"

\* what the attempt logs: how it was called, the kind of its end, the text of
\* the exception and the content it gave
OutcomeTag(r, attempt) ==
    [kind |-> r.kind, error |-> r.error, is_retry |-> IsRetry(attempt), content |-> r.content,
     given |-> r.given]

\* whether _crawl_page asks _should_retry_error about the end of an attempt
Classifies(r) == config.max_retries # 0 /\ r.kind = "raise"

\* result = await crawler.arun(...), the rest of _crawl_page_single, whose
\* finally clauses put back the streams it saved, and the part of _crawl_page
\* that follows it, up to the next sleep or the return
Arun(w) ==
    /\ wk[w].pc = "arun"
    /\ ~wk[w].cancel
    /\ \E o \in ArunOutcomes(wk[w].url) :
          LET r   == _crawl_page_single(o)
              end == AttemptEnd(r, wk[w].attempt)
          IN  /\ ArunSucceeds(o) \/ faults < FaultBudget
              /\ faults' = IF ArunSucceeds(o) THEN faults ELSE faults + 1
              /\ fetches' = Inc(fetches, wk[w].url)
              /\ wk' = [wk EXCEPT ![w].outcomes = Append(@, OutcomeTag(r, wk[w].attempt)),
                                  ![w].classified = IF Classifies(r) THEN @ + 1 ELSE @,
                                  ![w].exc = IF end = "raise" THEN r.error ELSE <<>>,
                                  ![w].pc = IF end = "retry" THEN "sleep" ELSE "ret",
                                  ![w].attempt = IF end = "retry" THEN @ + 1 ELSE @,
                                  ![w].ret = IF end = "retry" THEN "" ELSE end,
                                  ![w].content = IF end = "tuple" THEN r.content ELSE "",
                                  ![w].html = IF end = "tuple" THEN r.html ELSE "",
                                  ![w].result = IF end = "tuple" THEN r.result ELSE EmptyPage,
                                  ![w].old_std = OriginalStd]
    /\ sys_std' = wk[w].old_std
    /\ UNCHANGED <<env, visited, queued, queue, unfinished, results, lock, run, returned,
                   crawls, puts, worker_errors>>

\* an except branch that does not acknowledge the target
AckOnErrorMissing(n) == n

\* except Exception: logger.error(...); self.queue.task_done()
AckOnError(n) == TaskDone(n)

\* link extraction that is off by one level
ExtractsLinksAtMaxDepth(depth, html) == depth <= config.max_depth /\ html # ""

\* link extraction that does not look at the markup
ExtractsLinksWithoutMarkup(depth, html) == depth < config.max_depth

\* link extraction that stops one level early
ExtractsLinksEarlyStop(depth, html) == depth + 1 < config.max_depth /\ html # ""

\* whether the worker extracts the links of a page it has stored
ExtractsLinks(depth, html) == depth < config.max_depth /\ html # ""

\* a store that forgets what was stored before
StoreAlone(map, url, content) == (url :> content)

\* self.results[normalized_url] = cleaned_content
Store(map, url, content) == (url :> content) @@ map

\* the worker after _crawl_page: store the content and extract the links, or
\* acknowledge the target (also in the except branch, when _crawl_page raised)
Handle(w) ==
    /\ wk[w].pc = "ret"
    /\ IF wk[w].ret = "tuple"
       THEN /\ results' = Store(results, wk[w].url, wk[w].content)
            /\ IF ExtractsLinks(wk[w].depth, wk[w].html)
               THEN /\ wk' = [wk EXCEPT ![w].pc = "lock2",
                                        ![w].links = _extract_links(wk[w].result)]
                    /\ UNCHANGED unfinished
               ELSE /\ wk' = [wk EXCEPT ![w] = [Idle EXCEPT !.cancel = wk[w].cancel]]
                    /\ unfinished' = TaskDone(unfinished)
       ELSE /\ wk' = [wk EXCEPT ![w] = [Idle EXCEPT !.cancel = wk[w].cancel]]
            /\ unfinished' = IF wk[w].ret = "raise" THEN AckOnError(unfinished)
                                                    ELSE TaskDone(unfinished)
            /\ UNCHANGED results
    /\ worker_errors' = IF wk[w].ret = "raise" THEN worker_errors + 1 ELSE worker_errors
    /\ UNCHANGED <<env, sys_std, visited, queued, queue, lock, run, returned, crawls, fetches,
                   puts, faults>>

_is_same_domain(u) == _scope_key(u) = base_scope

\* an admission test that forgets the queued set
AdmissibleIgnoresQueued(link, vis, qd) ==
    /\ _is_same_domain(link)
    /\ link \notin vis
    /\ _should_crawl_url(link)

\* an admission test that forgets the scope
AdmissibleAnyDomain(link, vis, qd) ==
    /\ link \notin vis
    /\ link \notin qd
    /\ _should_crawl_url(link)

\* an admission test that forgets the extension list
AdmissibleAnyFile(link, vis, qd) ==
    /\ _is_same_domain(link)
    /\ link \notin vis
    /\ link \notin qd

\* the test of one link inside the second critical section
Admissible(link, vis, qd) ==
    /\ _is_same_domain(link)
    /\ link \notin vis
    /\ link \notin qd
    /\ _should_crawl_url(link)

\* a link that inherits the depth of the page that names it
ChildDepthOfParent(depth) == depth

\* new_links.append((normalized_link, depth + 1))
ChildDepth(depth) == depth + 1

\* the loop over the links of a page, from the i-th on: the targets to
\* enqueue, in order
RECURSIVE NewLinks(_, _, _, _, _, _)
NewLinks(links, i, base, depth, vis, qd) ==
    IF i > Len(links) THEN <<>>
    ELSE LET link == _normalize_url(urljoin(base, links[i]))
         IN  IF Admissible(link, vis, qd)
             THEN <<<<link, ChildDepth(depth)>>>> \o NewLinks(links, i + 1, base, depth, vis, qd \cup {link})
             ELSE NewLinks(links, i + 1, base, depth, vis, qd)

\* the place of the first link urljoin rejects, 0 when there is none
RECURSIVE FirstRaise(_, _)
FirstRaise(links, i) ==
    IF i > Len(links) THEN 0
    ELSE IF JoinRaises(links[i]) THEN i
    ELSE FirstRaise(links, i + 1)

\* the put counts after the targets have been put
PutAll(f, items) ==
    [u \in DOMAIN f \cup {items[i][1] : i \in 1..Len(items)} |->
        Count(f, u) + Cardinality({i \in 1..Len(items) : items[i][1] = u})]

\* the second critical section, then the put_nowait of every new link and
\* task_done; when urljoin raises on a link the loop ends there, the lock is
\* released, nothing is put and the except branch acknowledges the target
Admit(w) ==
    /\ wk[w].pc = "cs2"
    /\ lock = w
    /\ \E k \in {FirstRaise(wk[w].links, 1)} :
       \E new \in {NewLinks(IF k = 0 THEN wk[w].links ELSE SubSeq(wk[w].links, 1, k - 1),
                             1, wk[w].url, wk[w].depth, visited, queued)} :
           /\ queued' = queued \cup {new[i][1] : i \in 1..Len(new)}
           /\ IF k = 0
              THEN /\ queue' = queue \o new
                   /\ puts' = PutAll(puts, new)
                   /\ unfinished' = TaskDone(unfinished + Len(new))
                   /\ UNCHANGED worker_errors
              ELSE /\ unfinished' = AckOnError(unfinished)
                   /\ worker_errors' = worker_errors + 1
                   /\ UNCHANGED <<queue, puts>>
    /\ lock' = 0
    /\ wk' = [wk EXCEPT ![w] = [Idle EXCEPT !.cancel = wk[w].cancel]]
    /\ UNCHANGED <<env, sys_std, visited, results, run, returned, crawls, fetches, faults>>

\* except asyncio.CancelledError: break; a cancellation that arrives inside
\* _crawl_page_single passes its finally clause first
Cancelled(w) ==
    /\ wk[w].cancel
    /\ wk[w].pc \in Suspended
    /\ wk' = [wk EXCEPT ![w].pc = "ended"]
    /\ sys_std' = IF wk[w].pc = "arun" \/ (wk[w].pc = "sleep" /\ wk[w].attempt = 0)
                  THEN wk[w].old_std
                  ELSE sys_std
    /\ UNCHANGED <<env, visited, queued, queue, unfinished, results, lock, run, returned,
                   crawls, fetches, puts, faults, worker_errors>>

Next ==
    \/ Run
    \/ JoinReturns
    \/ GatherReturns
    \/ \E w \in DOMAIN wk :
          \/ Get(w)
          \/ Acquire(w)
          \/ Visit(w)
          \/ Sleep(w)
          \/ Arun(w)
          \/ Handle(w)
          \/ Admit(w)
          \/ Cancelled(w)

Spec == Init /\ [][Next]_vars

\* The pool at the concurrencies CrawlConfig admits around the cap (the field
\* is declared with le=20): one page with ten and more workers asked for, a
\* site with more targets than workers, and a seed with a path parameter.
PoolKwargs(st, c) ==
    [url |-> st.seed, max_depth |-> 1, concurrency |-> c, request_delay |-> 10,
     max_retries |-> 0, retry_backoff_factor |-> 20]

PoolSetups ==
    {[site |-> LeafSite, kwargs |-> PoolKwargs(LeafSite, c), get_sld |-> "loaded"] :
        c \in {WorkerCap, WorkerCap + 1, 20}}
    \cup {[site |-> st, kwargs |-> PoolKwargs(st, c), get_sld |-> "loaded"] :
            st \in {ParamSite, ParamSeedSite}, c \in 1..MaxConcurrency}

PoolInit ==
    /\ \E s \in PoolSetups : EngineInit(s)
    /\ call = NoCall

PoolSpec == PoolInit /\ [][Next]_vars

\* The event loop runs every task that can run, and every sleep and fetch
\* attempt ends: a step that stays possible is taken.
FairSpec == Spec /\ WF_vars(Next)

(***************************************************************************)
(* The pure methods, called the way the unit tests call them: on an engine *)
(* that has been constructed and is not running.  A call of _normalize_url *)
(* takes two URLs, normalises both and then normalises the results again;  *)
(* a call of _should_retry_error takes the text of an exception; a call of *)
(* _extract_links takes a result of the collaborator, with the href values *)
(* of its markup and of its own link list.                                 *)
(***************************************************************************)
\* at most MaxSlashes slashes follow the last segment of a path
MaxSlashes == 2
\* at most MaxParams parameters in a query string
MaxParams == 2
\* at most MaxErrorLen atoms in the text of an exception
MaxErrorLen == 2
\* at most MaxHrefs href values in one result, markup and link list together
MaxHrefs == 2

RECURSIVE Slashes(_)
Slashes(n) == IF n = 0 THEN <<>> ELSE <<"/">> \o Slashes(n - 1)

RECURSIVE SeqsUpTo(_, _)
SeqsUpTo(S, n) ==
    IF n = 0 THEN {<<>>}
    ELSE LET shorter == SeqsUpTo(S, n - 1)
         IN  shorter \cup {Append(q, x) : q \in shorter, x \in S}

PathStems == {<<>>, <<"/", "page">>, <<"/", "Page">>, <<"/", "a", "/", ";x">>}

TestPaths == {stem \o Slashes(n) : stem \in PathStems, n \in 0..MaxSlashes}

\* URLs without a query: every spelling of scheme, host, port, path, fragment
PlainUrls ==
    {Url(s, h, p, path, <<>>, f) :
        s \in {"https", "HTTPS", "http"}, h \in {EX, <<"EXAMPLE", "com">>},
        p \in {"", "443", "80", "8080"}, path \in TestPaths, f \in {"", "x"}}

\* the spellings a second URL takes beside a first: scheme and host in either
\* case, any port, the path as it is, one slash longer or in another case,
\* any fragment
SpellingChoices ==
    [lower_scheme : BOOLEAN, lower_host : BOOLEAN, port : {"same", "", "443"},
     path : {"same", "slash", "Page"}, frag : {"", "x"}]

Spelling(u, c) ==
    Url(IF c.lower_scheme THEN Lower(u.scheme) ELSE u.scheme,
        IF c.lower_host THEN LowerSeq(u.host) ELSE u.host,
        IF c.port = "same" THEN u.port ELSE c.port,
        IF c.path = "same" THEN u.path
        ELSE IF c.path = "slash" THEN u.path \o <<"/">> ELSE <<"/", "Page">>,
        <<>>, c.frag)

QueryPairs == {<<"a", "1">>, <<"b", "2">>, <<"a", "2">>, <<"name", "caf%E9">>}

\* https://example.com/page?<query>
QueryUrl(q) == Url("https", EX, "", <<"/", "page">>, q, "")

QueryUrls == {QueryUrl(q) : q \in SeqsUpTo(QueryPairs, MaxParams)}

ErrorAtoms == {"404", "Not Found", "FORBIDDEN", "invalid url", "timeout", "Connection",
               "503", "oops"}

ErrorTexts == SeqsUpTo(ErrorAtoms, MaxErrorLen)

\* href values: a relative, an absolute, a protocol-relative and an external
\* one, one of each scheme that is not navigable, a same-document one, an
\* empty one, one of white space, and two that name assets
Hrefs ==
    {Rel(<<"/", "page">>),
     Abs("https", EX, <<"/", "a">>),
     Abs("", <<"cdn", "example", "com">>, <<"/", "x">>),
     Abs("https", EXT, <<"/", "page">>),
     Url("", <<>>, "", <<>>, <<>>, "top"),
     Url("javascript", <<>>, "", <<"void(0)">>, <<>>, ""),
     Url("mailto", <<>>, "", <<"me">>, <<>>, ""),
     Url("tel", <<>>, "", <<"1">>, <<>>, ""),
     Url("data", <<>>, "", <<"x">>, <<>>, ""),
     Url("file", <<>>, "", <<"/", "x">>, <<>>, ""),
     Abs("ftp", EX, <<"/", "x">>),
     NoUrl,
     Rel(<<" ">>),
     Rel(<<"/", "style", ".css">>),
     Rel(<<"/", "logo", ".PNG">>)}

\* the results with at most n href values; BeautifulSoup parses the markup of
\* a result or raises on it
ExtractPages(n) ==
    UNION {{[Page(a, l) EXCEPT !.parses = p] :
               l \in SeqsUpTo(Hrefs, n - Len(a)), p \in BOOLEAN} :
             a \in SeqsUpTo(Hrefs, n)}

ExtractCalls(pages) ==
    {[fn |-> "_extract_links", args |-> <<pg>>, outs |-> <<>>] : pg \in pages}

\* URLs and href values whose path or whose query string ends like an asset:
\* /report.pdf, /report.pdf?download=1, /view?file=.pdf, /view?download=1, ...
AssetQueries == {<<>>, <<<<"download", "1">>>>, <<<<"file", ".pdf">>>>}

AssetUrls ==
    {Url(s, h, "", path, q, "") :
        s \in {"https", ""}, h \in {EX}, q \in AssetQueries,
        path \in {<<"/", "view">>, <<"/", "report", ".pdf">>, <<"/", "logo", ".PNG">>}}
    \cup {Url("", <<>>, "", path, q, "") :
            q \in AssetQueries,
            path \in {<<"/", "view">>, <<"/", "report", ".pdf">>, <<"/", "logo", ".PNG">>}}

\* the results with one href value of the given set, in the markup
AnchorPages(hrefs) ==
    {[Page(<<h>>, <<>>) EXCEPT !.parses = p] : h \in hrefs, p \in BOOLEAN}

CrawlCalls(urls) ==
    {[fn |-> "_should_crawl_url", args |-> <<u>>, outs |-> <<>>] : u \in urls}

\* the calls of _normalize_url on a URL of the given set and a spelling of it
SpellingCalls(urls) ==
    {[fn |-> "_normalize_url", args |-> <<u, Spelling(u, c)>>, outs |-> <<>>] :
        u \in urls, c \in SpellingChoices}

\* the calls of _normalize_url on two URLs of the given set
PairCalls(urls) ==
    {[fn |-> "_normalize_url", args |-> <<u, v>>, outs |-> <<>>] : u \in urls, v \in urls}

RetryCalls(texts) ==
    {[fn |-> "_should_retry_error", args |-> <<t>>, outs |-> <<>>] : t \in texts}

PureSetup ==
    [site |-> ChainSite, get_sld |-> "loaded",
     kwargs |-> [url |-> ChainSite.seed, max_depth |-> 1, concurrency |-> 1,
                 request_delay |-> 10, max_retries |-> 0, retry_backoff_factor |-> 20]]

\* the state of the engine, which the calls leave alone
engine == <<config, get_sld, kwargs, site, visited, queued, queue, unfinished, results,
            base_scope, lock, wk, run, returned, crawls, fetches, puts, faults,
            worker_errors, sys_std>>

PureInit ==
    /\ EngineInit(PureSetup)
    /\ \/ call \in SpellingCalls(PlainUrls)
       \/ call \in PairCalls(QueryUrls)
       \/ call \in RetryCalls(ErrorTexts)
       \/ call \in ExtractCalls(ExtractPages(MaxHrefs))
       \/ call \in ExtractCalls(AnchorPages(AssetUrls))
       \/ call \in CrawlCalls(AssetUrls)

\* engine._normalize_url(url), for each of the two URLs
CallNormalize ==
    /\ call.fn = "_normalize_url"
    /\ call.outs = <<>>
    /\ call' = [call EXCEPT !.outs = <<[i \in 1..Len(call.args) |-> _normalize_url(call.args[i])]>>]
    /\ UNCHANGED engine

\* engine._normalize_url(normalized), for each of the two results
CallNormalizeAgain ==
    /\ call.fn = "_normalize_url"
    /\ Len(call.outs) = 1
    /\ call' = [call EXCEPT !.outs =
                    Append(@, [i \in 1..Len(call.args) |-> _normalize_url(call.outs[1][i])])]
    /\ UNCHANGED engine

\* engine._should_retry_error(Exception(text))
CallShouldRetry ==
    /\ call.fn = "_should_retry_error"
    /\ call.outs = <<>>
    /\ call' = [call EXCEPT !.outs = <<_should_retry_error(call.args[1])>>]
    /\ UNCHANGED engine

\* engine._extract_links(html, base_url, result)
CallExtractLinks ==
    /\ call.fn = "_extract_links"
    /\ call.outs = <<>>
    /\ call' = [call EXCEPT !.outs = <<_extract_links(call.args[1])>>]
    /\ UNCHANGED engine

\* engine._should_crawl_url(url)
CallShouldCrawl ==
    /\ call.fn = "_should_crawl_url"
    /\ call.outs = <<>>
    /\ call' = [call EXCEPT !.outs = <<_should_crawl_url(call.args[1])>>]
    /\ UNCHANGED engine

PureNext ==
    \/ CallNormalize
    \/ CallNormalizeAgain
    \/ CallShouldRetry
    \/ CallExtractLinks
    \/ CallShouldCrawl

PureSpec == PureInit /\ [][PureNext]_vars

(***************************************************************************)
(* Properties.                                                             *)
(***************************************************************************)
Seed == _normalize_url(kwargs.url)

PageOf(host, name) == Abs("https", host, <<"/", name>>)

Range(s) == {s[i] : i \in 1..Len(s)}

QueueUrls == {queue[i][1] : i \in 1..Len(queue)}

\* the canonical in-scope pages a page links to
LinkTargets(u) ==
    {t \in {_normalize_url(urljoin(u, h)) : h \in Range(_extract_links(SitePage(u)))} :
        _is_same_domain(t) /\ _should_crawl_url(t)}

\* the pages at most n links away from the seed
RECURSIVE Within(_)
Within(n) ==
    IF n = 0 THEN {Seed}
    ELSE LET near == Within(n - 1) IN near \cup UNION {LinkTargets(u) : u \in near}

DefaultPolicy == "internal_domain_policy" \notin DOMAIN kwargs

\* no page of the site carries a link that urljoin rejects
WellFormed ==
    \A u \in DOMAIN site.pages :
        \A h \in Range(site.pages[u].anchors) \cup Range(site.pages[u].links) : ~JoinRaises(h)

\* C1: no canonical URL is passed to _crawl_page more than once; on the cycle
\* A -> B -> A with max_depth = 3 nothing but A and B is ever fetched, and a run
\* without failed fetches ends with A and B fetched once each.
C1_NoRevisit ==
    /\ \A u \in DOMAIN crawls : crawls[u] <= 1
    /\ site = CycleSite /\ config.max_depth = 3 =>
          /\ DOMAIN fetches \subseteq {PageOf(EX, "a"), PageOf(EX, "b")}
          /\ run = "done" /\ faults = 0 =>
                fetches = (PageOf(EX, "a") :> 1) @@ (PageOf(EX, "b") :> 1)

C1_Witness ==
    /\ run = "done" /\ site = CycleSite /\ config.max_depth = 3
    /\ config.concurrency = 2 /\ faults = 0
    /\ DOMAIN returned = {PageOf(EX, "a"), PageOf(EX, "b")}

\* C2: a canonical URL is pushed onto the work queue at most once in a run,
\* the seed included, however many links and workers name it.
C2_EnqueuedOnce == \A u \in DOMAIN puts : puts[u] <= 1

\* two workers hold pages that name the same canonical URL, one inside the
\* critical section and one waiting for it
C2_Witness ==
    \E v, w \in DOMAIN wk :
        /\ v # w
        /\ wk[v].pc = "cs2" /\ wk[w].pc = "lock2"
        /\ \E g \in Range(wk[v].links), h \in Range(wk[w].links) :
              /\ g # h
              /\ _normalize_url(urljoin(wk[v].url, g)) = _normalize_url(urljoin(wk[w].url, h))

\* C3: under fair scheduling run() returns, whatever the site, the number of
\* workers and the outcomes of the fetches.
C3_Termination == <>(run = "done")

C3_Witness ==
    /\ run = "done" /\ site = CycleSite /\ config.concurrency = 2
    /\ faults = MaxFaults /\ config.max_retries > 0

\* C4: every queued target has a depth within 0..max_depth, no target deeper
\* than max_depth is inside _crawl_page, and only a page fetched at a depth
\* below max_depth has its links extracted and admitted.
C4_DepthBound ==
    /\ \A i \in 1..Len(queue) : queue[i][2] >= 0 /\ queue[i][2] <= config.max_depth
    /\ \A w \in DOMAIN wk :
          /\ wk[w].pc \in {"sleep", "arun", "ret"} => wk[w].depth <= config.max_depth
          /\ wk[w].pc \in {"lock2", "cs2"} => wk[w].depth < config.max_depth

C4_Witness ==
    /\ config.max_depth = 2
    /\ \E i \in 1..Len(queue) : queue[i][2] = config.max_depth
    /\ \E w \in DOMAIN wk : wk[w].pc = "arun" /\ wk[w].depth = 1

\* C5: with one worker, a seed that is no asset and no failed fetch, run()
\* returns exactly the pages at most max_depth links from the seed, each fetched
\* once; on A -> B -> C that is {A, B} for max_depth 1 and {A, B, C} for 2 and 3.
C5_ExactResult ==
    run = "done" /\ config.concurrency = 1 /\ faults = 0 /\ _should_crawl_url(Seed) =>
        /\ DOMAIN returned = Within(config.max_depth)
        /\ DOMAIN fetches = DOMAIN returned
        /\ \A u \in DOMAIN fetches : fetches[u] = 1
        /\ site = ChainSite =>
              DOMAIN returned =
                  IF config.max_depth = 1
                  THEN {PageOf(EX, "a"), PageOf(EX, "b")}
                  ELSE {PageOf(EX, "a"), PageOf(EX, "b"), PageOf(EX, "c")}

C5_Witness ==
    /\ run = "done" /\ config.concurrency = 1 /\ faults = 0
    /\ site = ChainSite /\ config.max_depth = 2
    /\ DOMAIN returned = {PageOf(EX, "a"), PageOf(EX, "b"), PageOf(EX, "c")}

\* C6: with two or more workers and no failed fetch, every page at most
\* max_depth links from the seed is fetched and is in the returned map (stated
\* here for the sites all of whose links urljoin accepts).
C6_NoLostWork ==
    (/\ run = "done" /\ config.concurrency >= 2 /\ faults = 0
     /\ _should_crawl_url(Seed) /\ WellFormed) =>
        /\ Within(config.max_depth) \subseteq DOMAIN returned
        /\ Within(config.max_depth) \subseteq DOMAIN fetches

\* C7: the base scope key is the scope key of the seed throughout, and every
\* URL that is queued, visited, fetched or returned has that scope key.
C7_DomainRestriction ==
    /\ base_scope = _scope_key(Seed)
    /\ \A u \in queued \cup QueueUrls \cup visited \cup DOMAIN fetches
                \cup DOMAIN results \cup DOMAIN returned :
          _scope_key(u) = _scope_key(Seed)

\* the page that names other domains has had its links admitted
C7_Witness ==
    /\ run = "done" /\ site = ScopeSite
    /\ PageOf(DOCS, "a") \in DOMAIN returned
    /\ PageOf(WWW, "b") \in DOMAIN returned
    /\ PageOf(EXT, "page") \notin queued

\* C8: under the default policy hosts of one registrable domain share a scope
\* key when the public-suffix data is loaded, so the crawl seeded at
\* docs.example.com admits and fetches the page on www.example.com; localhost
\* and an IP literal keep their host as scope key; without the public-suffix
\* data the scope key is the host.
C8_DefaultPolicy ==
    LET hosts == {DOCS, WWW, EX, EXT, <<"localhost">>, <<"127", "0", "0", "1">>}
    IN  DefaultPolicy =>
        /\ get_sld = "loaded" =>
              /\ _scope_key(PageOf(DOCS, "a")) = _scope_key(PageOf(WWW, "b"))
              /\ _scope_key(PageOf(DOCS, "a")) # _scope_key(PageOf(EXT, "page"))
        /\ _scope_key(PageOf(<<"localhost">>, "x")) = <<"localhost">>
        /\ _scope_key(PageOf(<<"127", "0", "0", "1">>, "y")) = <<"127", "0", "0", "1">>
        /\ get_sld = "None" => \A h \in hosts : _scope_key(PageOf(h, "a")) = h
        /\ run = "done" /\ site = ScopeSite /\ get_sld = "loaded" /\ faults = 0 =>
              /\ PageOf(WWW, "b") \in DOMAIN returned
              /\ Count(fetches, PageOf(WWW, "b")) = 1

C8_Witness ==
    /\ run = "done" /\ site = ScopeSite /\ DefaultPolicy /\ get_sld = "loaded"
    /\ faults = 0
    /\ DOMAIN returned = {PageOf(DOCS, "a"), PageOf(WWW, "b")}

\* C9: when the caller passes internal_domain_policy = "host", the scope key is
\* the lower-cased host name, the page on www.example.com is neither admitted
\* nor fetched from the seed on docs.example.com, and only the seed is returned.
C9_HostPolicy ==
    ~DefaultPolicy /\ kwargs.internal_domain_policy = "host" =>
        /\ base_scope = _extract_domain(Seed)
        /\ site = ScopeSite =>
              /\ PageOf(WWW, "b") \notin queued
              /\ PageOf(WWW, "b") \notin DOMAIN fetches
              /\ DOMAIN returned \subseteq {PageOf(DOCS, "a")}

\* C10: with max_retries >= 1, a first attempt that raises a permanent error is
\* the only attempt: no backoff sleep follows and _crawl_page returns None.
C10_PermanentShortCircuit ==
    \A w \in DOMAIN wk :
        (/\ config.max_retries >= 1
         /\ wk[w].outcomes # <<>>
         /\ wk[w].outcomes[1].kind = "raise"
         /\ Contains(wk[w].outcomes[1].error, permanent_indicators)) =>
            /\ wk[w].pc = "ret"
            /\ wk[w].ret = "none"
            /\ wk[w].attempt = 0
            /\ Len(wk[w].outcomes) = 1
            /\ \A i \in 1..Len(wk[w].sleeps) : wk[w].sleeps[i].kind # "backoff"
            /\ Count(fetches, wk[w].url) = 1

C10_Witness ==
    \E w \in DOMAIN wk :
        /\ config.max_retries = MaxRetries
        /\ wk[w].pc = "ret"
        /\ Len(wk[w].outcomes) = 1
        /\ wk[w].outcomes[1].kind = "raise"
        /\ wk[w].outcomes[1].error = <<"404", " ", "not found">>
        /\ wk[w].ret = "none"

\* _crawl_page has returned to the worker, which holds what it gave
CrawlPageOver(w) == wk[w].pc \in {"ret", "lock2", "cs2"}

\* an attempt that raised an error the wrapper retries
RetryableRaise(t) == t.kind = "raise" /\ ~Contains(t.error, permanent_indicators)

AllRetryable(outcomes, n) == \A i \in 1..n : RetryableRaise(outcomes[i])

\* C11: with max_retries = n >= 1, while every attempt raises a retryable error
\* another attempt follows until n + 1 have been made; _crawl_page then returns
\* None and raises nothing.
C11_RetryExhaustion ==
    \A w \in DOMAIN wk :
        LET o == wk[w].outcomes
        IN  (config.max_retries >= 1 /\ o # <<>> /\ AllRetryable(o, Len(o))) =>
                /\ Len(o) <= config.max_retries + 1
                /\ Count(fetches, wk[w].url) = Len(o)
                /\ Len(o) <= config.max_retries =>
                      wk[w].pc \in {"sleep", "arun"} /\ wk[w].attempt = Len(o)
                /\ Len(o) = config.max_retries + 1 =>
                      wk[w].pc = "ret" /\ wk[w].ret = "none" /\ wk[w].exc = <<>>

C11_Witness ==
    \E w \in DOMAIN wk :
        /\ config.max_retries = MaxRetries
        /\ Len(wk[w].outcomes) = MaxRetries + 1
        /\ AllRetryable(wk[w].outcomes, MaxRetries + 1)
        /\ wk[w].pc = "ret" /\ wk[w].ret = "none"

\* C12: with max_retries >= 1 the first attempt is made with is_retry False and
\* every later one with is_retry True, no attempt follows one that gave a
\* result, and when k retryable errors are followed by a result _crawl_page
\* returns that result after k + 1 attempts.
C12_SuccessShortCircuit ==
    \A w \in DOMAIN wk :
        LET o == wk[w].outcomes
        IN  config.max_retries >= 1 =>
                /\ \A i \in 1..Len(o) : o[i].is_retry = (i > 1)
                /\ \A i \in 1..(Len(o) - 1) : o[i].kind # "tuple"
                /\ (o # <<>> /\ o[Len(o)].kind = "tuple" /\ AllRetryable(o, Len(o) - 1)) =>
                      /\ Len(o) <= config.max_retries + 1
                      /\ CrawlPageOver(w) /\ wk[w].ret = "tuple"
                      /\ wk[w].content = o[Len(o)].content
                      /\ wk[w].result \in {SitePage(wk[w].url), FailedPage, PartialPage}
                      /\ Count(fetches, wk[w].url) = Len(o)

C12_Witness ==
    \E w \in DOMAIN wk :
        /\ config.max_retries = MaxRetries
        /\ Len(wk[w].outcomes) = MaxRetries
        /\ AllRetryable(wk[w].outcomes, MaxRetries - 1)
        /\ wk[w].outcomes[MaxRetries].kind = "tuple"
        /\ wk[w].pc = "ret" /\ wk[w].ret = "tuple"
        /\ wk[w].result = SitePage(wk[w].url)

\* C13: with max_retries = 0 _crawl_page makes one attempt, asks for no
\* classification and sleeps no backoff; what the attempt gives, an exception
\* included, is what the caller gets.
C13_RetriesDisabled ==
    \A w \in DOMAIN wk :
        LET o == wk[w].outcomes
        IN  config.max_retries = 0 =>
                /\ Len(o) <= 1
                /\ wk[w].classified = 0
                /\ wk[w].attempt = 0
                /\ \A i \in 1..Len(wk[w].sleeps) : wk[w].sleeps[i].kind # "backoff"
                /\ Len(o) = 1 =>
                      /\ CrawlPageOver(w)
                      /\ wk[w].ret = o[1].kind
                      /\ Count(fetches, wk[w].url) = 1
                      /\ o[1].kind = "raise" => wk[w].exc = o[1].error

C13_Witness ==
    \E w \in DOMAIN wk :
        /\ config.max_retries = 0
        /\ wk[w].pc = "ret" /\ wk[w].ret = "raise"
        /\ wk[w].exc = <<"connection", " ", "timeout">>
        /\ Count(fetches, wk[w].url) = 1

\* the workers that hold a dequeued target they have not acknowledged
Busy == {w \in DOMAIN wk : wk[w].pc \notin {"get", "ended"}}

\* C14: every dequeued target is acknowledged exactly once, also when its
\* processing raised (a fetch error with max_retries = 0, a link urljoin
\* rejects): the pending count is the queue length plus the targets in work.
\* No worker ends and none is missing while run() waits, a worker that logged
\* an error is back at the dequeue with the lock free of it, and at the end
\* every target that was put on the queue has been processed, under the name
\* the worker gave it when it took it, and the fetched ones are returned.
C14_FailureIsolation ==
    /\ unfinished = Len(queue) + Cardinality(Busy)
    /\ worker_errors <= Cardinality(DOMAIN crawls)
    /\ run = "join" => DOMAIN wk = Workers /\ \A w \in DOMAIN wk : wk[w].pc # "ended"
    /\ \A w \in DOMAIN wk : lock = w => wk[w].pc \in {"cs1", "cs2"}
    /\ run = "done" =>
          /\ queue = <<>>
          /\ {_normalize_url(u) : u \in DOMAIN puts} \subseteq visited
          /\ DOMAIN crawls = {v \in {_normalize_url(u) : u \in DOMAIN puts} :
                                  _should_crawl_url(v)}
          /\ returned = results

\* one worker has logged an error for B, whose third link urljoin rejects, and
\* is fetching C, the target that was queued behind B
C14_Witness ==
    /\ site = BrokenSite /\ config.concurrency = 1 /\ faults = 0
    /\ worker_errors = 1
    /\ PageOf(EX, "b") \in DOMAIN results
    /\ wk[1].pc = "arun" /\ wk[1].url = PageOf(EX, "c")
    /\ lock = 0

IsBackoff(s) == s.kind = "backoff"

\* the backoff sleeps of a worker's current _crawl_page call, in order
Backoffs(w) == SelectSeq(wk[w].sleeps, IsBackoff)

\* C15: _crawl_page sleeps before retry attempt k, and only there, for
\* request_delay * retry_backoff_factor^(k-1): 1 then 2 (then 4) seconds for
\* request_delay 1 and factor 2, 2 then 3 (then 4.5) for 2 and 1.5.  (Delays
\* are in tenths of a second, a delay being the pair numerator, denominator.)
C15_BackoffSequence ==
    \A w \in DOMAIN wk :
        LET b == Backoffs(w)
        IN  /\ Len(b) = IF wk[w].pc = "sleep" /\ wk[w].attempt > 0
                         THEN wk[w].attempt - 1 ELSE wk[w].attempt
            /\ \A k \in 1..Len(b) :
                  /\ b[k].attempt = k
                  /\ b[k].delay[1] * Pow(10, k - 1) =
                        b[k].delay[2] * config.request_delay * Pow(config.retry_backoff_factor, k - 1)
                  /\ (config.request_delay = 10 /\ config.retry_backoff_factor = 20 /\ k <= 3) =>
                        b[k].delay[1] = b[k].delay[2] * (IF k = 1 THEN 10 ELSE IF k = 2 THEN 20 ELSE 40)
                  /\ (config.request_delay = 20 /\ config.retry_backoff_factor = 15 /\ k <= 2) =>
                        b[k].delay[1] = b[k].delay[2] * (IF k = 1 THEN 20 ELSE 30)
            /\ \A i \in 1..Len(wk[w].sleeps) :
                  wk[w].sleeps[i].attempt = 0 => wk[w].sleeps[i].kind = "delay"

\* two retryable failures, then a result
C15_Witness ==
    \E w \in DOMAIN wk :
        /\ config.request_delay = 10 /\ config.retry_backoff_factor = 20
        /\ wk[w].pc = "ret" /\ wk[w].ret = "tuple"
        /\ Len(wk[w].outcomes) = 3
        /\ AllRetryable(wk[w].outcomes, 2)
        /\ Len(Backoffs(w)) = 2
        /\ Backoffs(w)[1].delay = <<10, 1>>
        /\ Backoffs(w)[2].delay = <<200, 10>>

\* the permanent indicators: 400, 401, 403, 404 and their phrases, "invalid
\* url", "unsupported protocol"
PermanentTexts ==
    {"400", "bad request", "401", "unauthorized", "403", "forbidden", "404", "not found",
     "invalid url", "unsupported protocol"}

MatchesPermanent(text) == \E i \in 1..Len(text) : Lower(text[i]) \in PermanentTexts

\* C16: _should_retry_error gives False exactly for the texts that, lower-cased,
\* contain a permanent indicator, and True for every other text: one that also
\* contains a transient indicator is not retried, one that contains neither,
\* the empty text included, is retried.
C16_RetryClassification ==
    (call.fn = "_should_retry_error" /\ call.outs # <<>>) =>
        call.outs[1] = ~MatchesPermanent(call.args[1])

\* a text with a transient and a permanent indicator, not retried
C16_Witness ==
    /\ call.fn = "_should_retry_error"
    /\ call.args = <<<<"timeout", "Not Found">>>>
    /\ call.outs = <<FALSE>>

\* C17: normalising a normalised URL gives the same URL again.
C17_Idempotence ==
    (call.fn = "_normalize_url" /\ Len(call.outs) = 2) => call.outs[2] = call.outs[1]

DefaultPort(scheme) == IF scheme = "http" THEN "80" ELSE IF scheme = "https" THEN "443" ELSE "none"

\* two URLs that differ at most in the case of scheme and host, in an explicit
\* default port, in one trailing slash of the path and in the fragment
SameUpTo(u, v) ==
    /\ Lower(u.scheme) = Lower(v.scheme)
    /\ LowerSeq(u.host) = LowerSeq(v.host)
    /\ u.port = v.port \/ {u.port, v.port} = {"", DefaultPort(Lower(u.scheme))}
    /\ u.path = v.path \/ u.path = v.path \o <<"/">> \/ v.path = u.path \o <<"/">>
    /\ u.query = v.query

\* C18: URLs that differ only in the case of scheme and host, in an explicit
\* default port, in one trailing slash or in a fragment normalise to the same
\* URL; an empty path becomes "/"; the case of the path and a port that is not
\* the default are kept.
C18_Equivalence ==
    (call.fn = "_normalize_url" /\ call.outs # <<>>) =>
        /\ SameUpTo(call.args[1], call.args[2]) => call.outs[1][1] = call.outs[1][2]
        /\ \A i \in 1..2 :
              LET u == call.args[i]
                  n == call.outs[1][i]
              IN  /\ n.scheme = Lower(u.scheme) /\ n.host = LowerSeq(u.host) /\ n.frag = ""
                  /\ n.port = IF u.port = DefaultPort(Lower(u.scheme)) THEN "" ELSE u.port
                  /\ u.path \in {<<>>, <<"/">>} => n.path = <<"/">>
                  /\ u.path = <<"/", "Page">> => n.path = <<"/", "Page">>

\* how often a pair occurs in a query
Occurrences(q, p) == Cardinality({i \in 1..Len(q) : q[i] = p})

\* the octets a server reads from a percent-encoded key or value
Octets(a) ==
    IF a = "caf%E9" THEN <<"caf", "E9">>
    ELSE IF a = "caf%EF%BF%BD" THEN <<"caf", "EF", "BF", "BD">>
    ELSE <<a>>

DecodedQuery(q) == [i \in 1..Len(q) |-> <<Octets(q[i][1]), Octets(q[i][2])>>]

SameParams(q, r) ==
    /\ Len(q) = Len(r)
    /\ \A i \in 1..Len(q) :
          Occurrences(DecodedQuery(q), DecodedQuery(q)[i])
              = Occurrences(DecodedQuery(r), DecodedQuery(q)[i])

\* C19: URLs that differ only in the order of their query parameters normalise
\* to the same URL (b=2&a=1 and a=1&b=2 both to a=1&b=2), and the normalised
\* query has the parameters of the original, every key and value unchanged.
C19_QueryOrder ==
    (call.fn = "_normalize_url" /\ call.outs # <<>>) =>
        /\ (/\ SameParams(call.args[1].query, call.args[2].query)
            /\ [call.args[1] EXCEPT !.query = <<>>] = [call.args[2] EXCEPT !.query = <<>>]) =>
                call.outs[1][1] = call.outs[1][2]
        /\ \A i \in 1..2 : SameParams(call.args[i].query, call.outs[1][i].query)
        /\ call.args[1] = QueryUrl(<<<<"b", "2">>, <<"a", "1">>>>) =>
                call.outs[1][1] = QueryUrl(<<<<"a", "1">>, <<"b", "2">>>>)

\* the links _extract_links gives for the page of u, made absolute and canonical
CanonicalLinks(u) ==
    LET links == _extract_links(SitePage(u))
    IN  [i \in 1..Len(links) |-> _normalize_url(urljoin(u, links[i]))]

\* C20: no discovered link whose canonical URL ends in an extension of the
\* asset list is ever added to queued or put on the work queue, whether it
\* came from the anchors of the markup or from the collaborator's link list:
\* the only member of queued, queue entry or put that may end so is the
\* start URL at depth 0, which __init__ placed there and nobody discovered.
C20_AssetFiltering ==
    LET start == _normalize_url(config.url)
    IN  /\ \A u \in queued : EndsWithAsset(Str(u)) => u = start
        /\ \A i \in 1..Len(queue) :
              EndsWithAsset(Str(queue[i][1])) => queue[i] = <<start, 0>>
        /\ \A u \in DOMAIN puts :
              EndsWithAsset(Str(u)) => u = start /\ puts[u] = 1

\* the crawl of the cycle is over, both pages were admitted from; the first
\* page gave a style sheet in the collaborator's list, the second an image
\* behind a fragment in its markup, and both reached the admission loop
C20_Witness ==
    LET a == Abs("https", EX, <<"/", "a">>)
        b == Abs("https", EX, <<"/", "b">>)
    IN  /\ site = CycleSite
        /\ config.max_depth >= 2
        /\ {a, b} \subseteq DOMAIN results
        /\ unfinished = 0
        /\ worker_errors = 0
        /\ \E i \in DOMAIN CanonicalLinks(a) :
              /\ EndsWithAsset(Str(CanonicalLinks(a)[i]))
              /\ _extract_links(SitePage(a))[i] \in Range(SitePage(a).links)
        /\ \E i \in DOMAIN CanonicalLinks(b) :
              /\ EndsWithAsset(Str(CanonicalLinks(b)[i]))
              /\ _extract_links(SitePage(b))[i] \in Range(SitePage(b).anchors)
        /\ queued = {a, b}

\* a call of _extract_links that has returned
Extracted == call.fn = "_extract_links" /\ Len(call.outs) = 1

\* the prefixes of links that lead nowhere a crawler can go
NotNavigablePrefixes ==
    {<<"#">>, <<"javascript", ":">>, <<"mailto", ":">>, <<"tel", ":">>,
     <<"data", ":">>, <<"file", ":">>, <<"ftp", ":">>}

HasPrefix(h, prefixes) == \E p \in prefixes : StartsWith(Str(h), p)

\* C21: when the markup parses, the list _extract_links returns holds no link
\* that is empty or white space only and none that starts with '#',
\* 'javascript:', 'mailto:', 'tel:', 'data:', 'file:' or 'ftp:', whether the
\* link came from an anchor or from the collaborator's list; every link of
\* the list is an href of one of the two sources as it was written, and every
\* anchor href that is none of the above and names no asset is in the list.
C21_SchemeAndEmptyFiltering ==
    Extracted /\ call.args[1].parses =>
        LET page == call.args[1]
            out  == call.outs[1]
        IN  /\ \A i \in 1..Len(out) :
                  /\ ~IsBlank(Str(out[i]))
                  /\ ~HasPrefix(out[i], NotNavigablePrefixes)
                  /\ out[i] \in Range(page.anchors) \cup Range(page.links)
            /\ \A j \in 1..Len(page.anchors) :
                  (/\ ~IsBlank(Str(page.anchors[j]))
                   /\ ~HasPrefix(page.anchors[j], NotNavigablePrefixes)
                   /\ ~EndsWithAsset(Str(page.anchors[j])))
                  => page.anchors[j] \in Range(out)

\* an anchor with an external page beside an ftp: link of the collaborator's
\* list: the page is returned as written, the ftp: link is not
C21_Witness ==
    /\ Extracted
    /\ call.args[1].parses
    /\ call.args[1].anchors = <<Abs("https", EXT, <<"/", "page">>)>>
    /\ call.args[1].links = <<Abs("ftp", EX, <<"/", "x">>)>>
    /\ call.outs[1] = <<Abs("https", EXT, <<"/", "page">>)>>

\* C22: the list _extract_links returns never holds a link that ends in an
\* asset extension, whether the link came from an anchor or from the
\* collaborator's list.
C22_UniformAssetFilter ==
    Extracted /\ call.args[1].parses =>
        \A i \in 1..Len(call.outs[1]) : ~EndsWithAsset(Str(call.outs[1][i]))

\* C23: when BeautifulSoup raises, _extract_links still returns: the list
\* holds no link that starts with '#', 'javascript:', 'mailto:', 'tel:',
\* 'data:', 'file:' or 'ftp:', and it holds every href of the text that is
\* not empty, starts with none of these and names no asset.
C23_FallbackFilters ==
    Extracted /\ ~call.args[1].parses =>
        LET page == call.args[1]
            out  == call.outs[1]
        IN  /\ \A i \in 1..Len(out) : ~HasPrefix(out[i], NotNavigablePrefixes)
            /\ \A j \in 1..Len(page.anchors) :
                  (/\ ~IsBlank(Str(page.anchors[j]))
                   /\ ~HasPrefix(page.anchors[j], NotNavigablePrefixes)
                   /\ ~EndsWithAsset(Str(page.anchors[j])))
                  => page.anchors[j] \in Range(out)

\* the worker has the tuple of an attempt on which the collaborator gave a
\* stream with items
HoldsStreamed(w) ==
    /\ wk[w].pc \in {"ret", "lock2", "cs2"}
    /\ wk[w].ret = "tuple"
    /\ wk[w].outcomes[Len(wk[w].outcomes)].given.streams
    /\ wk[w].outcomes[Len(wk[w].outcomes)].given.items # <<>>

\* the worker uses the result r for its page: content, markup, result
\* object, and the links once they are extracted
UsesResult(w, r) ==
    /\ wk[w].content = extract_cleaned_content(r)
    /\ wk[w].html = r.html
    /\ wk[w].result = r
    /\ wk[w].pc \in {"lock2", "cs2"} => wk[w].links = _extract_links(r)

\* C24 as stated: when the collaborator gives a stream of several results for
\* one URL, the content, markup and links used for the page are those of the
\* final result of the stream.
C24_FinalOfStream ==
    \A w \in DOMAIN wk :
        HoldsStreamed(w) =>
            LET items == wk[w].outcomes[Len(wk[w].outcomes)].given.items
            IN  UsesResult(w, items[Len(items)])

\* C24, amended: when the collaborator gives a stream of results for one URL,
\* the content, markup and links used for the page are those of the first
\* result of the stream; no later result is read.
C24_FirstOfStream ==
    \A w \in DOMAIN wk :
        HoldsStreamed(w) =>
            LET items == wk[w].outcomes[Len(wk[w].outcomes)].given.items
            IN  UsesResult(w, items[1])

\* a stream of two results was fetched for the start page: the first one is
\* stored and its link is queued, the link of the second is not
C24_Witness ==
    /\ site = StreamSite
    /\ DOMAIN results = {StreamSite.seed}
    /\ results[StreamSite.seed] = "partial"
    /\ Abs("https", EX, <<"/", "early">>) \in queued
    /\ Abs("https", EX, <<"/", "b">>) \notin queued
    /\ Count(fetches, StreamSite.seed) = 1

\* C25: a canonical URL becomes a key of results only if the result the
\* collaborator gave for it reported success = true: whenever a key is added,
\* the worker that stores it holds a result with success = true.
C25_OnlySuccessStored ==
    [][\A u \in DOMAIN results' \ DOMAIN results :
          \E w \in DOMAIN wk :
              /\ wk[w].url = u
              /\ wk[w].pc = "ret"
              /\ wk[w].result.success]_vars

\* C26: results is append-only: an entry is never removed and never
\* overwritten, a worker about to store a page never finds its key there, a
\* step that changes results adds exactly one key that was not there, and
\* what run() returns is results as it then stands.
C26_AppendOnly ==
    [][/\ \A u \in DOMAIN results : u \in DOMAIN results' /\ results'[u] = results[u]
       /\ \A w \in DOMAIN wk :
              wk[w].pc = "ret" /\ wk[w].ret = "tuple" => wk[w].url \notin DOMAIN results
       /\ results' # results =>
              /\ Cardinality(DOMAIN results' \ DOMAIN results) = 1
              /\ run \in {"join"}
       /\ run' = "done" => returned' = results /\ results' = results]_vars

\* run() has returned a map of two pages, the second stored beside the first
C26_Witness ==
    /\ run = "done"
    /\ Cardinality(DOMAIN returned) >= 2
    /\ returned = results

\* C27: the counter of unfinished tasks counts the targets on the queue and
\* those a worker has taken and not yet acknowledged (every put adds one, every dequeued target is
\* acknowledged once); it is zero only when the queue is empty and no worker
\* processes a target; run() goes on from queue.join() and returns only
\* then; and when run() has returned every URL ever added to queued is in
\* visited.
C27_NoPrematureCompletion ==
    /\ unfinished = Len(queue) + Cardinality(Busy)
    /\ unfinished = 0 => queue = <<>> /\ Busy = {}
    /\ run \in {"gather", "done"} => unfinished = 0
    /\ run = "done" => queued \subseteq visited

\* C28: a URL enters visited only in a step of a worker that holds the lock
\* in the first critical section, for the target it has just dequeued and
\* before any fetch of it; between the dequeue and that step the worker only
\* waits for the lock; a URL is fetched only when it is in visited already;
\* and a worker that finds its target in visited acknowledges it and goes
\* back to the dequeue, and no fetch is made.
C28_VisitedBeforeFetch ==
    [][/\ \A u \in visited' \ visited :
              \E w \in DOMAIN wk :
                  /\ lock = w /\ wk[w].pc = "cs1" /\ wk[w].url = u
                  /\ Count(fetches, u) = 0 /\ Count(crawls, u) = 0
       /\ \A u \in DOMAIN fetches' :
              Count(fetches', u) # Count(fetches, u) => u \in visited
       /\ \A w \in DOMAIN wk \cap DOMAIN wk' :
              /\ wk[w].pc = "get" => wk'[w].pc \in {"get", "lock1", "ended"}
              /\ wk[w].pc = "lock1" => wk'[w].pc \in {"lock1", "cs1", "ended"}
              /\ (wk[w].pc = "cs1" /\ wk[w].url \in visited /\ wk'[w] # wk[w]) =>
                    /\ wk'[w].pc = "get"
                    /\ unfinished' = unfinished - 1
                    /\ fetches' = fetches /\ crawls' = crawls /\ visited' = visited]_vars

\* the page that two links name has been dequeued twice, as /p/;x and as
\* /p;x: it is in visited under one name and was fetched once
C28_Witness ==
    LET p == Abs("https", EX, <<"/", "p", ";x">>)
    IN  /\ site = ParamSite
        /\ run = "done"
        /\ DOMAIN puts = {ParamSite.seed, Abs("https", EX, <<"/", "p", "/", ";x">>), p}
        /\ visited = {ParamSite.seed, p}
        /\ Count(fetches, p) = 1
        /\ Count(crawls, p) = 1

\* the workers inside _crawl_page: sleeping before a fetch or fetching
Fetching == {w \in DOMAIN wk : wk[w].pc \in {"sleep", "arun"}}

\* C29: once run() has created them there are min(concurrency, 10) worker
\* tasks, so at most that many targets are taken and not acknowledged, and
\* at most that many are being fetched, also when the configured concurrency
\* is between 11 and 20.
C29_BoundedConcurrency ==
    LET pool == IF config.concurrency < 10 THEN config.concurrency ELSE 10
    IN  /\ run # "constructed" => Cardinality(DOMAIN wk) = pool
        /\ Cardinality(Busy) <= pool
        /\ Cardinality(Fetching) <= pool
        /\ Cardinality(Busy) + Len(queue) = unfinished

\* eleven workers were asked for, ten tasks exist and one of them fetches
C29_Witness ==
    /\ config.concurrency = 11
    /\ Cardinality(DOMAIN wk) = 10
    /\ \E w \in DOMAIN wk : wk[w].pc = "arun"

\* C30: a worker is cancelled only when the counter of unfinished tasks has
\* reached zero and run() has left queue.join(); then every worker has ended
\* or waits in queue.get() with the cancellation pending and able to end on
\* it; when run() has returned, every worker task has ended, the lock is
\* free, the returned map is results, and no step is possible any more.
C30_CooperativeShutdown ==
    /\ \A w \in DOMAIN wk :
          wk[w].cancel => unfinished = 0 /\ queue = <<>> /\ run \in {"gather", "done"}
    /\ run = "gather" =>
          /\ lock = 0
          /\ \A w \in DOMAIN wk :
                \/ wk[w].pc = "ended"
                \/ wk[w].cancel /\ wk[w].pc = "get" /\ ENABLED Cancelled(w)
    /\ run = "done" =>
          /\ \A w \in DOMAIN wk : wk[w].pc = "ended"
          /\ lock = 0
          /\ returned = results
          /\ ~ENABLED Next

\* run() has returned after two workers shared the crawl of the cycle: both
\* have ended, the lock is free, both pages are returned
C30_Witness ==
    /\ site = CycleSite
    /\ run = "done"
    /\ Cardinality(DOMAIN wk) = 2
    /\ \A w \in DOMAIN wk : wk[w].pc = "ended" /\ wk[w].cancel
    /\ lock = 0
    /\ Cardinality(DOMAIN returned) = 2

\* the workers that have marked u and are inside _crawl_page for it, before
\* its first fetch
AboutToFetch(u) ==
    {w \in DOMAIN wk : wk[w].url = u /\ wk[w].pc \in {"sleep", "arun"}}

\* C31: every URL in visited has been fetched at least once or is about to
\* be fetched by the worker that marked it; when run() has returned every
\* URL in visited has had a fetch attempt, also a seed that ends in an asset
\* extension.
C31_VisitedMeansFetched ==
    /\ \A u \in visited : Count(fetches, u) > 0 \/ AboutToFetch(u) # {}
    /\ run = "done" => \A u \in visited : Count(fetches, u) > 0

\* the targets a step has put on the queue
Added == SubSeq(queue', Len(queue) + 1, Len(queue'))

\* C32: a URL gets its depth when it is admitted and keeps it: the seed is
\* queued at depth 0 and every other target at a depth of 1 or more; a step
\* that puts targets on the queue is the admission of a worker holding a
\* page, each target is new to queued, is put once and at the depth of that
\* page plus one; the targets already on the queue stay as they are, so a
\* page that names an already queued URL from another depth neither puts it
\* again nor changes its depth; and a worker takes the depth of the target
\* it dequeues and keeps it while it holds the target.
C32_DepthAssignedOnce ==
    [][/\ \A i \in 1..Len(queue) :
              IF queue[i][1] = Seed THEN queue[i][2] = 0 ELSE queue[i][2] >= 1
       /\ \A i, j \in 1..Len(queue) : queue[i][1] = queue[j][1] => i = j
       /\ \/ queue' = queue
          \/ /\ queue # <<>> /\ queue' = Tail(queue)
             /\ \E w \in DOMAIN wk :
                   /\ wk[w].pc = "get"
                   /\ wk'[w].url = _normalize_url(queue[1][1])
                   /\ wk'[w].depth = queue[1][2]
          \/ /\ Len(queue') > Len(queue)
             /\ SubSeq(queue', 1, Len(queue)) = queue
             /\ \E w \in DOMAIN wk :
                   /\ wk[w].pc = "cs2" /\ lock = w
                   /\ \A i \in 1..Len(Added) :
                         /\ Added[i][2] = wk[w].depth + 1
                         /\ Added[i][1] \notin queued
                         /\ Added[i][1] \in queued'
                         /\ Count(puts, Added[i][1]) = 0
                         /\ Count(puts', Added[i][1]) = 1
                         /\ \A j \in 1..Len(Added) : Added[j][1] = Added[i][1] => j = i
       /\ \A w \in DOMAIN wk \cap DOMAIN wk' :
              wk[w].pc \notin {"get", "ended"} /\ wk'[w].pc \notin {"get", "ended"} =>
                  wk'[w].url = wk[w].url /\ wk'[w].depth = wk[w].depth]_vars

\* T waits on the queue at depth 2, admitted from P, while a worker holds Q,
\* a page of depth 2 that names T as well, inside the second critical section
C32_Witness ==
    /\ site = DiamondSite
    /\ \E i \in 1..Len(queue) : queue[i] = <<PageOf(EX, "t"), 2>>
    /\ \E w \in DOMAIN wk :
          /\ wk[w].pc = "cs2" /\ wk[w].url = PageOf(EX, "q") /\ wk[w].depth = 2
          /\ \E h \in Range(wk[w].links) :
                _normalize_url(urljoin(wk[w].url, h)) = PageOf(EX, "t")

\* the path of a URL ends in an extension of the asset list
PathEndsWithAsset(u) == EndsWithAsset(u.path)

\* C33: the asset filter looks at the path: _should_crawl_url refuses a URL
\* exactly when its path ends in an extension of the asset list, whatever
\* its query string; and of the href values of a page's markup, one whose
\* path ends so is not returned by _extract_links, also when a query string
\* follows (/report.pdf?download=1), while one whose path names a page is
\* returned, also when its query string ends like an asset (/view?file=.pdf).
C33_AssetFilterOnPath ==
    /\ (call.fn = "_should_crawl_url" /\ call.outs # <<>>) =>
          (call.outs[1] <=> ~PathEndsWithAsset(call.args[1]))
    /\ (/\ Extracted /\ call.args[1].links = <<>>
        /\ Len(call.args[1].anchors) = 1 /\ call.args[1].anchors[1] \in AssetUrls) =>
          (call.args[1].anchors[1] \in Range(call.outs[1])
              <=> ~PathEndsWithAsset(call.args[1].anchors[1]))

\* the parameters of a query that have the key k, in their order
RECURSIVE WithKey(_, _)
WithKey(q, k) ==
    IF q = <<>> THEN <<>>
    ELSE (IF q[1][1] = k THEN <<q[1]>> ELSE <<>>) \o WithKey(Tail(q), k)

\* the keys of a query are in ascending code-point order
KeysAscend(q) ==
    \A i, j \in 1..Len(q) : i < j => AtomRank(q[i][1]) <= AtomRank(q[j][1])

\* C34 as claimed: the normalised query has its keys in ascending order, and
\* when it holds the parameters of the original, those of one key are in the
\* order the original had them (a=2&a=1 stays a=2&a=1).
C34_StableQuerySort ==
    (call.fn = "_normalize_url" /\ call.outs # <<>>) =>
        \A n \in 1..Len(call.args) :
            LET q == call.args[n].query
                r == call.outs[1][n].query
            IN  /\ KeysAscend(r)
                /\ (\A i \in 1..Len(q) : Occurrences(q, q[i]) = Occurrences(r, q[i])) =>
                        \A i \in 1..Len(q) : WithKey(r, q[i][1]) = WithKey(q, q[i][1])

\* C34: the normalised query has its keys in ascending order and the
\* parameters of one key in ascending order of their values, whatever their
\* original order: a=2&a=1 becomes a=1&a=2, as a=1&a=2 does.
C34_SortedByKeyThenValue ==
    (call.fn = "_normalize_url" /\ call.outs # <<>>) =>
        \A n \in 1..Len(call.args) :
            LET q == call.args[n].query
                r == call.outs[1][n].query
            IN  /\ KeysAscend(r)
                /\ \A i, j \in 1..Len(r) :
                      i < j /\ r[i][1] = r[j][1] => AtomRank(r[i][2]) <= AtomRank(r[j][2])
                /\ Len(r) = Len(q)
                /\ q = <<<<"a", "2">>, <<"a", "1">>>> => r = <<<<"a", "1">>, <<"a", "2">>>>

\* ?a=2&a=1 and ?a=1&a=2 have been normalised, both to ?a=1&a=2
C34_Witness ==
    /\ call.fn = "_normalize_url"
    /\ call.args = <<QueryUrl(<<<<"a", "2">>, <<"a", "1">>>>),
                     QueryUrl(<<<<"a", "1">>, <<"a", "2">>>>)>>
    /\ call.outs # <<>>
    /\ call.outs[1][1] = QueryUrl(<<<<"a", "1">>, <<"a", "2">>>>)
    /\ call.outs[1][2] = call.outs[1][1]

\* a path without its trailing slashes
WithoutTrailingSlashes(p) ==
    LET n == CHOOSE i \in 0..Len(p) :
                 /\ i = 0 \/ p[i] # "/"
                 /\ \A j \in (i + 1)..Len(p) : p[j] = "/"
    IN  SubSeq(p, 1, n)

\* C35 as claimed: of a path without parameters that is not the root and
\* ends in a slash, normalisation removes exactly that one slash (/page//
\* becomes /page/); every other path is kept, but for the empty path, the
\* only one that becomes "/".
C35_SingleTrailingSlash ==
    (call.fn = "_normalize_url" /\ call.outs # <<>>) =>
        \A n \in 1..Len(call.args) :
            LET p == call.args[n].path
                r == call.outs[1][n].path
            IN  SplitParams(p)[2] = <<>> =>
                    /\ r = IF p = <<>> THEN <<"/">>
                           ELSE IF p # <<"/">> /\ p[Len(p)] = "/"
                                THEN SubSeq(p, 1, Len(p) - 1)
                                ELSE p
                    /\ r = <<"/">> => p \in {<<>>, <<"/">>}

\* C35: normalisation removes every trailing slash of the path urlparse
\* reports, which is the path without the parameters of its last segment
\* (/page// and /page/ both become /page); a path that is empty or made of
\* slashes only becomes "/"; so the normalised path of a URL without path
\* parameters ends in a slash only when it is "/".
C35_AllTrailingSlashes ==
    (call.fn = "_normalize_url" /\ call.outs # <<>>) =>
        \A n \in 1..Len(call.args) :
            LET p    == call.args[n].path
                r    == call.outs[1][n].path
                bare == WithoutTrailingSlashes(SplitParams(p)[1])
            IN  /\ r = (IF bare = <<>> THEN <<"/">> ELSE bare) \o SplitParams(p)[2]
                /\ SplitParams(p)[2] = <<>> /\ r # <<"/">> => r[Len(r)] # "/"
                /\ p \in {<<"/", "page", "/">>, <<"/", "page", "/", "/">>} => r = <<"/", "page">>
                /\ p \in {<<>>, <<"/">>, <<"/", "/">>} => r = <<"/">>

\* /page/ has been normalised to /page, and so has /page//
C35_Witness ==
    /\ call.fn = "_normalize_url"
    /\ call.outs # <<>>
    /\ call.args[1].path = <<"/", "page", "/">>
    /\ call.args[2].path = <<"/", "page", "/", "/">>
    /\ call.outs[1][1].path = <<"/", "page">>
    /\ call.outs[1][2].path = <<"/", "page">>

\* C36: queued and visited only grow, and visited is a subset of queued in
\* every state: a URL that has been dequeued and marked visited is still in
\* queued, and no URL ever leaves either set.
C36_FrontierInclusion ==
    [][/\ queued \subseteq queued'
       /\ visited \subseteq visited'
       /\ visited \subseteq queued
       /\ visited' \subseteq queued']_vars

\* C37: the streams a worker saves on entering _crawl_page_single are those
\* of the process, never the StringIO objects another worker has put in
\* their place, and when run() has returned sys.stdout and sys.stderr are
\* the streams they were before run() was called.
C37_StreamsRestored ==
    /\ \A w \in DOMAIN wk : wk[w].old_std = OriginalStd
    /\ run = "done" => sys_std = OriginalStd

\* C38: in the step in which run() leaves queue.join() and cancels the
\* workers, the queue is empty, the lock is free and every worker is
\* suspended in queue.get(): none sleeps, fetches, waits for or holds the
\* lock, or holds a target it has not acknowledged; and a worker task ends
\* only from queue.get(), so no fetch is abandoned by a cancellation.
C38_NoWorkInFlightAtCancel ==
    [][/\ (run = "join" /\ run' = "gather") =>
              /\ queue = <<>> /\ lock = 0 /\ unfinished = 0
              /\ \A w \in DOMAIN wk :
                    /\ wk[w].pc = "get" /\ wk[w].url = NoUrl
                    /\ ~wk[w].cancel /\ wk'[w].cancel
       /\ \A w \in DOMAIN wk \cap DOMAIN wk' :
              wk[w].pc # "ended" /\ wk'[w].pc = "ended" =>
                  /\ wk[w].pc = "get" /\ wk[w].url = NoUrl
                  /\ fetches' = fetches /\ unfinished' = unfinished /\ unfinished = 0]_vars

\* run() has just cancelled two workers that shared a crawl with failed
\* fetches: both wait in queue.get() with the cancellation pending
C38_Witness ==
    /\ run = "gather"
    /\ Cardinality(DOMAIN wk) = 2
    /\ \A w \in DOMAIN wk : wk[w].pc = "get" /\ wk[w].cancel
    /\ faults > 0
    /\ Cardinality(DOMAIN fetches) >= 2

\* the attempts of the worker's current _crawl_page call all ended without
\* an exception and without content
AllEmpty(w) ==
    /\ wk[w].outcomes # <<>>
    /\ \A i \in 1..Len(wk[w].outcomes) : wk[w].outcomes[i].kind = "none"

\* C39: with max_retries = n >= 1, while every attempt of a page returns None
\* (no exception, no content) the classifier is not asked, another attempt
\* follows, each retry after its backoff sleep, until n + 1 have been made;
\* then _crawl_page returns None, the page is in visited and not in results,
\* and the worker acknowledges it without storing anything.
C39_EmptyFetchRetried ==
    [][\A w \in DOMAIN wk :
          (config.max_retries >= 1 /\ AllEmpty(w)) =>
              LET n == Len(wk[w].outcomes)
              IN  /\ n <= config.max_retries + 1
                  /\ Count(fetches, wk[w].url) = n
                  /\ wk[w].classified = 0
                  /\ n <= config.max_retries =>
                        /\ wk[w].pc \in {"sleep", "arun"} /\ wk[w].attempt = n
                        /\ wk[w].pc = "arun" =>
                              /\ Len(Backoffs(w)) = n
                              /\ Backoffs(w)[n].attempt = n
                  /\ n = config.max_retries + 1 =>
                        /\ wk[w].pc = "ret" /\ wk[w].ret = "none" /\ wk[w].exc = <<>>
                        /\ Len(Backoffs(w)) = config.max_retries
                        /\ wk[w].url \in visited
                        /\ wk[w].url \notin DOMAIN results
                        /\ wk'[w] # wk[w] =>
                              /\ wk'[w].pc = "get"
                              /\ results' = results
                              /\ unfinished' = unfinished - 1]_vars

\* every attempt of a page came back empty and _crawl_page has returned None
\* after max_retries + 1 attempts
C39_Witness ==
    \E w \in DOMAIN wk :
        /\ config.max_retries = MaxRetries
        /\ AllEmpty(w)
        /\ Len(wk[w].outcomes) = MaxRetries + 1
        /\ wk[w].pc = "ret" /\ wk[w].ret = "none"
        /\ wk[w].url \in visited /\ wk[w].url \notin DOMAIN results

\* C40: a worker that has the tuple of a page below max_depth whose markup
\* is empty stores the content and acknowledges the page without extracting
\* or admitting any link, also when the collaborator's link list names pages
\* in scope: nothing is added to queued or to the queue; and every worker
\* that is about to admit links holds a page with markup.
C40_MarkupGatesLinks ==
    [][\A w \in DOMAIN wk :
          /\ wk[w].pc \in {"lock2", "cs2"} => wk[w].html # ""
          /\ (/\ wk[w].pc = "ret" /\ wk[w].ret = "tuple" /\ wk[w].html = ""
              /\ wk[w].depth < config.max_depth /\ wk'[w] # wk[w]) =>
                /\ wk'[w].pc = "get"
                /\ wk[w].url \in DOMAIN results'
                /\ results'[wk[w].url] = wk[w].content
                /\ queued' = queued /\ queue' = queue /\ puts' = puts
                /\ unfinished' = unfinished - 1]_vars

\* the page without markup has been fetched and stored with its text; the
\* page its link list names, which is in scope, was never queued
C40_Witness ==
    /\ site = TextSite
    /\ run = "done"
    /\ returned = (TextSite.seed :> "text")
    /\ \E h \in Range(SitePage(TextSite.seed).links) :
          LET t == _normalize_url(urljoin(TextSite.seed, h))
          IN  _is_same_domain(t) /\ _should_crawl_url(t) /\ t \notin queued
    /\ queued = {TextSite.seed}
    /\ fetches = (TextSite.seed :> 1)

====
